---- MODULE Spec2Model ----
(***************************************************************************)
(* Model of the sampled aggregation pipeline of gmail_stats.py:            *)
(*   - the Rate-Limited Batch Fetcher  (batch_get_metadata, chunked)       *)
(*   - the chronological Identifier Sampler (list_all_message_ids)         *)
(*   - the request tallies (count_request, execute_request)                *)
(*                                                                         *)
(* Message identifiers are the naturals 1..n; the response of the remote   *)
(* store for identifier m is modelled by m itself.  Durations are counted  *)
(* in whole units of the fixed inter-batch delay.                          *)
(***************************************************************************)
EXTENDS Integers, Sequences, FiniteSets, TLC

VARIABLES
    \* ---- configuration read from the environment (gmail_stats.py:46-57)
    MAX_RETRIES, INITIAL_RETRY_DELAY, MAX_RETRY_DELAY, SLEEP_EVERY_N_BATCHES,
    \* ---- request tallies (gmail_stats.py:91-92)
    REQUEST_TOTAL, REQUESTS_BY_ENDPOINT,
    \* ---- batch_get_metadata: argument, locals, position
    msg_ids, results, errors, i, attempt, retry_delay, pc, raised,
    \* ---- observation of batch_get_metadata: composite requests executed
    \*      and time.sleep calls, in order
    execLog, sleepLog,
    \* ---- list_all_message_ids: store, argument, locals, position
    store, max_ids, ids, page_token, page, lpc, lraised,
    \* ---- observation of list_all_message_ids: list requests issued
    listLog,
    \* ---- list_all_message_ids_random: locals and return value
    all_ids, sampled_ids,
    \* ---- aggregation loop of main: input consumed so far, run settings,
    \*      accumulators, the locals of each iteration, rankings
    messages, has_attachment_data, utc_offset, rows, by_day, total_size,
    email_stats, domain_stats, apc, views,
    \* ---- SQLite database: committed tables and AUTOINCREMENT sequence, the
    \*      writer's open transaction, save_run's position and locals,
    \*      get_summary's position and local, history of calls and reads
    db_runs, db_stats, db_seq, tx_runs, tx_stats, wpc, run_id, todo, calls,
    rpc, reader_run, reads,
    \* ---- main: position, args.random_sample, what was printed
    mpc, random_sample, out

cfgVars   == <<MAX_RETRIES, INITIAL_RETRY_DELAY, MAX_RETRY_DELAY,
               SLEEP_EVERY_N_BATCHES>>
tallyVars == <<REQUEST_TOTAL, REQUESTS_BY_ENDPOINT>>
fetchVars == <<msg_ids, results, errors, i, attempt, retry_delay, pc, raised,
               execLog, sleepLog>>
listVars  == <<store, max_ids, ids, page_token, page, lpc, lraised, listLog>>
randVars  == <<all_ids, sampled_ids>>
aggVars   == <<messages, has_attachment_data, utc_offset, rows, by_day,
               total_size, email_stats, domain_stats, apc, views>>
dbVars    == <<db_runs, db_stats, db_seq, tx_runs, tx_stats, wpc, run_id, todo,
               calls, rpc, reader_run, reads>>
mainVars  == <<mpc, random_sample, out>>
vars      == <<cfgVars, tallyVars, fetchVars, listVars, randVars, aggVars,
               dbVars, mainVars>>

------------------------------------------------------------------------------
(* Bounds of the model *)

MaxIds == 25
MaxRetriesBound == 3
MaxInitialDelay == 2
MaxDelayCap == 2
MaxFairIds == 12
MaxBackoffIds == 11
MaxPages == 3
MaxPageSize == 3
MaxCount == 5
MaxRandPages == 2
MaxRandPageSize == 2
MaxRandCount == 3
MaxMessages == 3
MaxRuns == 2
MaxStatRows == 2
MaxReads == 2
MaxEveryN == 2
MaxThrottleIds == 21

(* Program constants *)

SAFE_BATCH_SIZE == 10
LIST_PAGE_SIZE == 500

\* Defaults of the environment configuration; durations in units of 0.25 s
BATCH_DELAY == 1
DEFAULT_MAX_RETRIES == 5
DEFAULT_INITIAL_RETRY_DELAY == 4
DEFAULT_MAX_RETRY_DELAY == 240
DEFAULT_SLEEP_EVERY_N_BATCHES == 10
SLEEP_LONG_DURATION == 8

Endpoints == {"users.messages.get", "batch.execute", "users.messages.list",
              "users.getProfile", "users.labels.list", "users.labels.get"}

\* Group-level HTTP failures the remote store can answer with.
HttpStatuses == {400, 403, 429, 500}

Min(a, b) == IF a <= b THEN a ELSE b

------------------------------------------------------------------------------
(* Request tallies *)

count_request_EndpointOnly(t, endpoint, count) ==
    <<t[1], [t[2] EXCEPT ![endpoint] = @ + count]>>

\* count_request(endpoint, count) on the pair <<REQUEST_TOTAL, REQUESTS_BY_ENDPOINT>>
count_request(t, endpoint, count) ==
    <<t[1] + count, [t[2] EXCEPT ![endpoint] = @ + count]>>

------------------------------------------------------------------------------
(* chunked(xs, n): for i in range(0, len(xs), n): yield xs[i : i + n] *)

RECURSIVE chunkedFrom_Short(_, _, _)
chunkedFrom_Short(xs, n, k) ==
    IF k >= Len(xs) THEN <<>>
    ELSE <<SubSeq(xs, k + 1, Min(k + n - 1, Len(xs)))>>
         \o chunkedFrom_Short(xs, n, k + n)

RECURSIVE chunkedFrom(_, _, _)
chunkedFrom(xs, n, k) ==
    IF k >= Len(xs) THEN <<>>
    ELSE <<SubSeq(xs, k + 1, Min(k + n, Len(xs)))>> \o chunkedFrom(xs, n, k + n)

chunked(xs, n) == chunkedFrom(xs, n, 0)

total_batches == (Len(msg_ids) + SAFE_BATCH_SIZE - 1) \div SAFE_BATCH_SIZE

\* The chunk the for-loop is currently working on (enumerate(..., start=1)).
chunk == chunked(msg_ids, SAFE_BATCH_SIZE)[i]

------------------------------------------------------------------------------
(* batch_get_metadata *)

callback_AppendsAlways(acc, request_id, exception) ==
    IF exception
    THEN <<Append(acc[1], request_id), Append(acc[2], request_id)>>
    ELSE <<Append(acc[1], request_id), acc[2]>>

callback_Prepends(acc, request_id, exception) ==
    IF exception
    THEN <<acc[1], Append(acc[2], request_id)>>
    ELSE <<<<request_id>> \o acc[1], acc[2]>>

\* callback(request_id, response, exception) on the pair <<results, errors>>
callback(acc, request_id, exception) ==
    IF exception
    THEN <<acc[1], Append(acc[2], request_id)>>
    ELSE <<Append(acc[1], request_id), acc[2]>>

\* A successful batch.execute() invokes the callback once per added request,
\* in the order the requests were added; bad is the set of items the store
\* answered with a per-item error.
RECURSIVE RunCallbacks(_, _, _)
RunCallbacks(acc, reqs, bad) ==
    IF reqs = <<>> THEN acc
    ELSE RunCallbacks(callback(acc, Head(reqs), Head(reqs) \in bad), Tail(reqs), bad)

\* for msg_id in chunk: count_request("users.messages.get"); batch.add(...)
RECURSIVE BuildBatch(_, _)
BuildBatch(t, reqs) ==
    IF reqs = <<>> THEN t
    ELSE BuildBatch(count_request(t, "users.messages.get", 1), Tail(reqs))

InRetryRange_OneMore(a) == a <= MAX_RETRIES

InRetryRange_AtLeastOnce(a) == a < MAX_RETRIES \/ a = 0

\* for attempt in range(MAX_RETRIES)
InRetryRange(a) == a < MAX_RETRIES

is_rate_limit_Only403(status) == status \in {403}

is_rate_limit_With500(status) == status \in {403, 429, 500}

\* is_rate_limit = e.resp.status in [403, 429]
is_rate_limit(status) == status \in {403, 429}

CanRetry_OneFewer(a) == a < MAX_RETRIES - 2

CanRetry_OneMore(a) == a < MAX_RETRIES

\* if attempt < MAX_RETRIES - 1
CanRetry(a) == a < MAX_RETRIES - 1

\* retry_delay = min(retry_delay * 2, MAX_RETRY_DELAY)
NextRetryDelay(d) == Min(d * 2, MAX_RETRY_DELAY)

\* The per-item error patterns the store answers a successful composite with.
BadPatterns(reqs) ==
    {{}, {reqs[1]}, {reqs[Len(reqs)]}, {reqs[k] : k \in 1..Len(reqs)}}

\* for i, chunk in enumerate(chunked(msg_ids, SAFE_BATCH_SIZE), start=1):
\*     retry_delay = INITIAL_RETRY_DELAY
NextChunk ==
    /\ pc = "for_chunk"
    /\ i < Len(chunked(msg_ids, SAFE_BATCH_SIZE))
    /\ i' = i + 1
    /\ retry_delay' = INITIAL_RETRY_DELAY
    /\ attempt' = 0
    /\ pc' = "for_attempt"
    /\ UNCHANGED <<msg_ids, results, errors, raised, execLog, sleepLog>>
    /\ UNCHANGED <<cfgVars, tallyVars, listVars, randVars, aggVars, dbVars, mainVars>>

\* the chunk loop is exhausted: return results
Return ==
    /\ pc = "for_chunk"
    /\ i >= Len(chunked(msg_ids, SAFE_BATCH_SIZE))
    /\ pc' = "returned"
    /\ UNCHANGED <<msg_ids, results, errors, i, attempt, retry_delay, raised,
                   execLog, sleepLog>>
    /\ UNCHANGED <<cfgVars, tallyVars, listVars, randVars, aggVars, dbVars, mainVars>>

\* range(MAX_RETRIES) is exhausted without break or raise
AttemptsExhausted ==
    /\ pc = "for_attempt"
    /\ ~InRetryRange(attempt)
    /\ pc' = "for_chunk"
    /\ UNCHANGED <<msg_ids, results, errors, i, attempt, retry_delay, raised,
                   execLog, sleepLog>>
    /\ UNCHANGED <<cfgVars, tallyVars, listVars, randVars, aggVars, dbVars, mainVars>>

\* try-body runs to the break: batch.execute() succeeded
AttemptSuccess ==
    /\ pc = "for_attempt"
    /\ InRetryRange(attempt)
    /\ \E bad \in BadPatterns(chunk) :
         LET t1  == BuildBatch(<<REQUEST_TOTAL, REQUESTS_BY_ENDPOINT>>, chunk)
             acc == RunCallbacks(<<results, errors>>, chunk, bad)
             t2  == count_request(t1, "batch.execute", 1)
         IN /\ results' = acc[1]
            /\ errors' = acc[2]
            /\ REQUEST_TOTAL' = t2[1]
            /\ REQUESTS_BY_ENDPOINT' = t2[2]
            /\ execLog' = Append(execLog, [batch |-> i, attempt |-> attempt,
                                           reqs |-> chunk, outcome |-> "ok",
                                           bad |-> bad])
    /\ sleepLog' = Append(sleepLog, [batch |-> i, kind |-> "batch_delay",
                                     dur |-> BATCH_DELAY,
                                     afterExec |-> Len(execLog) + 1])
    /\ pc' = "for_chunk"
    /\ UNCHANGED <<msg_ids, i, attempt, retry_delay, raised>>
    /\ UNCHANGED <<cfgVars, listVars, randVars, aggVars, dbVars, mainVars>>

\* batch.execute() raises HttpError: except HttpError as e
AttemptHttpError ==
    /\ pc = "for_attempt"
    /\ InRetryRange(attempt)
    /\ \E status \in HttpStatuses :
         LET t1 == BuildBatch(<<REQUEST_TOTAL, REQUESTS_BY_ENDPOINT>>, chunk)
         IN /\ REQUEST_TOTAL' = t1[1]
            /\ REQUESTS_BY_ENDPOINT' = t1[2]
            /\ execLog' = Append(execLog,
                   [batch |-> i, attempt |-> attempt, reqs |-> chunk,
                    outcome |-> IF status \in {403, 429} THEN "rate_limit"
                                ELSE "http_error",
                    bad |-> {}])
            /\ IF is_rate_limit(status) /\ CanRetry(attempt)
               THEN /\ sleepLog' = Append(sleepLog,
                           [batch |-> i, kind |-> "backoff", dur |-> retry_delay,
                            afterExec |-> Len(execLog) + 1])
                    /\ retry_delay' = NextRetryDelay(retry_delay)
                    /\ attempt' = attempt + 1
                    /\ UNCHANGED <<pc, raised>>
               ELSE /\ pc' = "raised"
                    /\ raised' = [type |-> "HttpError", status |-> status]
                    /\ UNCHANGED <<sleepLog, retry_delay, attempt>>
    /\ UNCHANGED <<msg_ids, results, errors, i>>
    /\ UNCHANGED <<cfgVars, listVars, randVars, aggVars, dbVars, mainVars>>

\* batch.execute() raises anything else (transport failure): except Exception
AttemptException ==
    /\ pc = "for_attempt"
    /\ InRetryRange(attempt)
    /\ LET t1 == BuildBatch(<<REQUEST_TOTAL, REQUESTS_BY_ENDPOINT>>, chunk)
       IN /\ REQUEST_TOTAL' = t1[1]
          /\ REQUESTS_BY_ENDPOINT' = t1[2]
    /\ execLog' = Append(execLog, [batch |-> i, attempt |-> attempt,
                                   reqs |-> chunk, outcome |-> "exception",
                                   bad |-> {}])
    /\ pc' = "raised"
    /\ raised' = [type |-> "ConnectionError", status |-> 0]
    /\ UNCHANGED <<msg_ids, results, errors, i, attempt, retry_delay, sleepLog>>
    /\ UNCHANGED <<cfgVars, listVars, randVars, aggVars, dbVars, mainVars>>

------------------------------------------------------------------------------
(* Specification of the fetcher *)

\* main has not been entered
MainIdle ==
    /\ mpc = "idle"
    /\ random_sample = FALSE
    /\ out = <<>>

\* no save_run and no get_summary yet, on an empty database
DbIdle ==
    /\ db_runs = {}
    /\ db_stats = {}
    /\ db_seq = 0
    /\ tx_runs = {}
    /\ tx_stats = {}
    /\ wpc = "idle"
    /\ run_id = 0
    /\ todo = <<>>
    /\ calls = <<>>
    /\ rpc = "idle"
    /\ reader_run = 0
    /\ reads = <<>>

\* main before its aggregation loop starts
NoViews == [sorted_domains |-> <<>>, sorted_emails |-> <<>>,
            sorted_domains_size |-> <<>>,
            sorted_by_count |-> <<>>, sorted_by_size |-> <<>>]

AggIdle ==
    /\ messages = <<>>
    /\ has_attachment_data = FALSE
    /\ utc_offset = 0
    /\ rows = <<>>
    /\ by_day = <<>>
    /\ total_size = 0
    /\ email_stats = <<>>
    /\ domain_stats = <<>>
    /\ apc = "idle"
    /\ views = NoViews

NoError == [type |-> "none", status |-> 0]

ListIdle ==
    /\ store = <<>>
    /\ max_ids = 0
    /\ ids = <<>>
    /\ page_token = 0
    /\ page = 0
    /\ lpc = "idle"
    /\ lraised = FALSE
    /\ listLog = <<>>
    /\ all_ids = <<>>
    /\ sampled_ids = <<>>

\* State at the call of batch_get_metadata with n identifiers, n \in counts,
\* under a configuration drawn from the given sets.
InitFetch(counts, initialDelays, maxDelays) ==
    /\ MAX_RETRIES \in 0..MaxRetriesBound
    /\ INITIAL_RETRY_DELAY \in initialDelays
    /\ MAX_RETRY_DELAY \in maxDelays
    /\ SLEEP_EVERY_N_BATCHES = DEFAULT_SLEEP_EVERY_N_BATCHES
    /\ REQUEST_TOTAL = 0
    /\ REQUESTS_BY_ENDPOINT = [e \in Endpoints |-> 0]
    /\ \E n \in counts : msg_ids = [k \in 1..n |-> k]
    /\ results = <<>>
    /\ errors = <<>>
    /\ i = 0
    /\ attempt = 0
    /\ retry_delay = 0
    /\ pc = "for_chunk"
    /\ raised = NoError
    /\ execLog = <<>>
    /\ sleepLog = <<>>
    /\ ListIdle
    /\ AggIdle
    /\ DbIdle
    /\ MainIdle

Init == InitFetch(0..MaxIds, {DEFAULT_INITIAL_RETRY_DELAY},
                 {DEFAULT_MAX_RETRY_DELAY})

\* Short id lists under every configuration of the two retry delays.
InitBackoff == InitFetch(0..MaxBackoffIds, 1..MaxInitialDelay, 1..MaxDelayCap)

InitFair == InitFetch(0..MaxFairIds, {DEFAULT_INITIAL_RETRY_DELAY},
                      {DEFAULT_MAX_RETRY_DELAY})

Next ==
    \/ NextChunk
    \/ Return
    \/ AttemptsExhausted
    \/ AttemptSuccess
    \/ AttemptHttpError
    \/ AttemptException

Spec == Init /\ [][Next]_vars

\* The function is one sequential call: a step that can be taken is taken.
SpecBackoff == InitBackoff /\ [][Next]_vars

FairSpec == InitFair /\ [][Next]_vars /\ WF_vars(Next)

\* Several groups under small settings of SLEEP_EVERY_N_BATCHES.
InitThrottle ==
    /\ MAX_RETRIES \in {0, 2}
    /\ INITIAL_RETRY_DELAY = DEFAULT_INITIAL_RETRY_DELAY
    /\ MAX_RETRY_DELAY = DEFAULT_MAX_RETRY_DELAY
    /\ SLEEP_EVERY_N_BATCHES \in 1..MaxEveryN
    /\ REQUEST_TOTAL = 0
    /\ REQUESTS_BY_ENDPOINT = [e \in Endpoints |-> 0]
    /\ \E n \in 0..MaxThrottleIds : msg_ids = [k \in 1..n |-> k]
    /\ results = <<>>
    /\ errors = <<>>
    /\ i = 0
    /\ attempt = 0
    /\ retry_delay = 0
    /\ pc = "for_chunk"
    /\ raised = NoError
    /\ execLog = <<>>
    /\ sleepLog = <<>>
    /\ ListIdle
    /\ AggIdle
    /\ DbIdle
    /\ MainIdle

SpecThrottle == InitThrottle /\ [][Next]_vars

------------------------------------------------------------------------------
(* list_all_message_ids *)

\* The remote store answers a query with a chain of pages: store[k] holds the
\* identifiers of page k; every page but the last carries a nextPageToken.
\* The token handed out with page k is k; the first request carries None (0).
RECURSIVE Flatten(_)
Flatten(pages) ==
    IF pages = <<>> THEN <<>> ELSE Head(pages) \o Flatten(Tail(pages))

RECURSIVE NumberPages(_, _)
NumberPages(sizes, from) ==
    IF sizes = <<>> THEN <<>>
    ELSE <<[k \in 1..Head(sizes) |-> from + k]>>
         \o NumberPages(Tail(sizes), from + Head(sizes))

StoresOf(maxPages, maxPageSize) ==
    UNION {{NumberPages(sizes, 0) : sizes \in [1..p -> 0..maxPageSize]} :
           p \in 1..maxPages}

Stores == StoresOf(MaxPages, MaxPageSize)

\* resp.get("messages", []) and resp.get("nextPageToken") of the page after token
resp_messages(token) == store[token + 1]
resp_nextPageToken(token) == IF token + 1 < Len(store) THEN token + 1 ELSE 0

\* maxResults=min(500, max_ids - len(ids)) if max_ids else 500
maxResults == IF max_ids # 0 THEN Min(LIST_PAGE_SIZE, max_ids - Len(ids))
              ELSE LIST_PAGE_SIZE

RECURSIVE AppendBatch_NoCap(_, _)
AppendBatch_NoCap(acc, batch) ==
    IF batch = <<>> THEN <<acc, FALSE>>
    ELSE AppendBatch_NoCap(Append(acc, Head(batch)), Tail(batch))

RECURSIVE AppendBatch_OffByOne(_, _)
AppendBatch_OffByOne(acc, batch) ==
    IF batch = <<>> THEN <<acc, FALSE>>
    ELSE LET acc1 == Append(acc, Head(batch))
         IN IF max_ids # 0 /\ Len(acc1) > max_ids THEN <<acc1, TRUE>>
            ELSE AppendBatch_OffByOne(acc1, Tail(batch))

\* for m in batch: ids.append(m["id"]); if max_ids and len(ids) >= max_ids: return ids
\* yields <<ids, TRUE>> when the loop returned, <<ids, FALSE>> when it ran out
RECURSIVE AppendBatch(_, _)
AppendBatch(acc, batch) ==
    IF batch = <<>> THEN <<acc, FALSE>>
    ELSE LET acc1 == Append(acc, Head(batch))
         IN IF max_ids # 0 /\ Len(acc1) >= max_ids THEN <<acc1, TRUE>>
            ELSE AppendBatch(acc1, Tail(batch))

\* What request.execute() of a list request can raise: an HttpError with one
\* of the statuses, or a transport failure (0).
ListFailures == HttpStatuses \cup {0}

\* one iteration of `while True` whose list request succeeds
ListPage ==
    /\ lpc = "listing"
    /\ page' = page + 1
    /\ LET t == count_request(<<REQUEST_TOTAL, REQUESTS_BY_ENDPOINT>>,
                              "users.messages.list", 1)
       IN /\ REQUEST_TOTAL' = t[1]
          /\ REQUESTS_BY_ENDPOINT' = t[2]
    /\ listLog' = Append(listLog, [collected |-> Len(ids),
                                   maxResults |-> maxResults,
                                   pageToken |-> page_token,
                                   status |-> 200])
    /\ LET r == AppendBatch(ids, resp_messages(page_token))
       IN /\ ids' = r[1]
          /\ IF r[2]
             THEN /\ lpc' = "returned"
                  /\ UNCHANGED page_token
             ELSE /\ page_token' = resp_nextPageToken(page_token)
                  /\ lpc' = IF page_token' = 0 THEN "returned" ELSE "listing"
    /\ UNCHANGED <<store, max_ids, lraised>>
    /\ UNCHANGED <<cfgVars, fetchVars, randVars, aggVars, dbVars, mainVars>>

\* one iteration of `while True` whose list request raises
ListPageFails ==
    /\ lpc = "listing"
    /\ page' = page + 1
    /\ LET t == count_request(<<REQUEST_TOTAL, REQUESTS_BY_ENDPOINT>>,
                              "users.messages.list", 1)
       IN /\ REQUEST_TOTAL' = t[1]
          /\ REQUESTS_BY_ENDPOINT' = t[2]
    /\ \E status \in ListFailures :
         listLog' = Append(listLog, [collected |-> Len(ids),
                                     maxResults |-> maxResults,
                                     pageToken |-> page_token,
                                     status |-> status])
    /\ lpc' = "raised"
    /\ lraised' = TRUE
    /\ UNCHANGED <<store, max_ids, ids, page_token>>
    /\ UNCHANGED <<cfgVars, fetchVars, randVars, aggVars, dbVars, mainVars>>

------------------------------------------------------------------------------
(* list_all_message_ids_random *)

IsInjective(f) == \A a, b \in DOMAIN f : f[a] = f[b] => a = b

Sample_WithReplacement(population, k) ==
    {[j \in 1..k |-> population[f[j]]] : f \in [1..k -> DOMAIN population]}

\* random.sample(population, k): k elements drawn at k different positions of
\* the population, in any order
Sample(population, k) ==
    {[j \in 1..k |-> population[f[j]]] :
        f \in {g \in [1..k -> DOMAIN population] : IsInjective(g)}}

random_loop_done_EarlyStop(next_token) ==
    \/ next_token = 0
    \/ max_ids # 0 /\ Len(all_ids) + Len(resp_messages(page_token)) >= max_ids

\* page_token = resp.get("nextPageToken"); if not page_token: break
\* (`if not resp: break` is the same exit: an empty response has no token)
random_loop_done(next_token) == next_token = 0

\* the lines after the loop: what the function can return for the collected ids
random_result(collected) ==
    IF max_ids = 0 THEN {collected}
    ELSE IF Len(collected) <= max_ids THEN {collected}
    ELSE Sample(collected, max_ids)

\* one iteration of `while True` whose list request succeeds; the iteration
\* that leaves the loop also runs the lines after it and returns
RandomListPage ==
    /\ lpc = "random_listing"
    /\ page' = page + 1
    /\ LET t == count_request(<<REQUEST_TOTAL, REQUESTS_BY_ENDPOINT>>,
                              "users.messages.list", 1)
       IN /\ REQUEST_TOTAL' = t[1]
          /\ REQUESTS_BY_ENDPOINT' = t[2]
    /\ listLog' = Append(listLog, [collected |-> Len(all_ids),
                                   maxResults |-> LIST_PAGE_SIZE,
                                   pageToken |-> page_token,
                                   status |-> 200])
    /\ all_ids' = all_ids \o resp_messages(page_token)
    /\ LET next_token == resp_nextPageToken(page_token)
       IN IF random_loop_done(next_token)
          THEN /\ page_token' = 0
               /\ sampled_ids' \in random_result(all_ids')
               /\ lpc' = "returned"
          ELSE /\ page_token' = next_token
               /\ sampled_ids' = sampled_ids
               /\ lpc' = "random_listing"
    /\ UNCHANGED <<store, max_ids, ids, lraised>>
    /\ UNCHANGED <<cfgVars, fetchVars, aggVars, dbVars, mainVars>>

RandomListPageFails_Retries ==
    /\ lpc = "random_listing"
    /\ page' = page + 1
    /\ LET t == count_request(<<REQUEST_TOTAL, REQUESTS_BY_ENDPOINT>>,
                              "users.messages.list", 1)
       IN /\ REQUEST_TOTAL' = t[1]
          /\ REQUESTS_BY_ENDPOINT' = t[2]
    /\ \E status \in ListFailures :
         /\ listLog' = Append(listLog, [collected |-> Len(all_ids),
                                        maxResults |-> LIST_PAGE_SIZE,
                                        pageToken |-> page_token,
                                        status |-> status])
         /\ IF status \in {403, 429} /\ page <= Len(store)
            THEN lpc' = "random_listing" /\ lraised' = FALSE
            ELSE lpc' = "raised" /\ lraised' = TRUE
    /\ UNCHANGED <<store, max_ids, ids, page_token, all_ids, sampled_ids>>
    /\ UNCHANGED <<cfgVars, fetchVars, aggVars, dbVars, mainVars>>

\* one iteration of `while True` whose list request raises: execute_request
\* has no handler, and neither has the loop
RandomListPageFails ==
    /\ lpc = "random_listing"
    /\ page' = page + 1
    /\ LET t == count_request(<<REQUEST_TOTAL, REQUESTS_BY_ENDPOINT>>,
                              "users.messages.list", 1)
       IN /\ REQUEST_TOTAL' = t[1]
          /\ REQUESTS_BY_ENDPOINT' = t[2]
    /\ \E status \in ListFailures :
         listLog' = Append(listLog, [collected |-> Len(all_ids),
                                     maxResults |-> LIST_PAGE_SIZE,
                                     pageToken |-> page_token,
                                     status |-> status])
    /\ lpc' = "raised"
    /\ lraised' = TRUE
    /\ UNCHANGED <<store, max_ids, ids, page_token, all_ids, sampled_ids>>
    /\ UNCHANGED <<cfgVars, fetchVars, aggVars, dbVars, mainVars>>

------------------------------------------------------------------------------
(* Specification of the chronological sampler *)

FetchIdle ==
    /\ msg_ids = <<>>
    /\ results = <<>>
    /\ errors = <<>>
    /\ i = 0
    /\ attempt = 0
    /\ retry_delay = 0
    /\ pc = "idle"
    /\ raised = NoError
    /\ execLog = <<>>
    /\ sleepLog = <<>>

InitList ==
    /\ MAX_RETRIES = DEFAULT_MAX_RETRIES
    /\ INITIAL_RETRY_DELAY = DEFAULT_INITIAL_RETRY_DELAY
    /\ MAX_RETRY_DELAY = DEFAULT_MAX_RETRY_DELAY
    /\ SLEEP_EVERY_N_BATCHES = DEFAULT_SLEEP_EVERY_N_BATCHES
    /\ REQUEST_TOTAL = 0
    /\ REQUESTS_BY_ENDPOINT = [e \in Endpoints |-> 0]
    /\ store \in Stores
    /\ max_ids \in 0..MaxCount
    /\ ids = <<>>
    /\ page_token = 0
    /\ page = 0
    /\ lpc = "listing"
    /\ lraised = FALSE
    /\ listLog = <<>>
    /\ all_ids = <<>>
    /\ sampled_ids = <<>>
    /\ FetchIdle
    /\ AggIdle
    /\ DbIdle
    /\ MainIdle

NextList ==
    \/ ListPage
    \/ ListPageFails

SpecList == InitList /\ [][NextList]_vars

(* Specification of the random sampler *)

InitSampler(stores, counts, start) ==
    /\ MAX_RETRIES = DEFAULT_MAX_RETRIES
    /\ INITIAL_RETRY_DELAY = DEFAULT_INITIAL_RETRY_DELAY
    /\ MAX_RETRY_DELAY = DEFAULT_MAX_RETRY_DELAY
    /\ SLEEP_EVERY_N_BATCHES = DEFAULT_SLEEP_EVERY_N_BATCHES
    /\ REQUEST_TOTAL = 0
    /\ REQUESTS_BY_ENDPOINT = [e \in Endpoints |-> 0]
    /\ store \in stores
    /\ max_ids \in counts
    /\ ids = <<>>
    /\ page_token = 0
    /\ page = 0
    /\ lpc = start
    /\ lraised = FALSE
    /\ listLog = <<>>
    /\ all_ids = <<>>
    /\ sampled_ids = <<>>
    /\ FetchIdle
    /\ AggIdle
    /\ DbIdle
    /\ MainIdle

RandStores == StoresOf(MaxRandPages, MaxRandPageSize)

InitRandom == InitSampler(RandStores, 0..MaxRandCount, "random_listing")

NextRandom ==
    \/ RandomListPage
    \/ RandomListPageFails

SpecRandom == InitRandom /\ [][NextRandom]_vars

(* Both samplers: main picks one by args.random_sample *)

InitEither ==
    \/ InitSampler(RandStores, 0..MaxRandCount, "listing")
    \/ InitRandom

NextEither ==
    \/ ListPage
    \/ ListPageFails
    \/ RandomListPage
    \/ RandomListPageFails

SpecSampler == InitEither /\ [][NextEither]_vars

------------------------------------------------------------------------------
(* Aggregation loop of main: strings, headers, payloads *)

\* Strings are sequences of characters.  An optional value (a key that may be
\* missing from a dict, or None) is <<>> when missing and <<v>> when present.
None == <<>>
Some(v) == <<v>>

Max(S) == CHOOSE x \in S : \A y \in S : y <= x
MinOf(S) == CHOOSE x \in S : \A y \in S : x <= y

Lowercase == {"a", "b", "c", "f", "g", "k", "m", "n", "o", "r", "u", "w",
              "x", "y", "z"}
Uppercase == {"A", "B", "C", "M", "O", "X"}
Digits == {"1"}
Whitespace == {" "}

\* [A-Z] under re.IGNORECASE
Letters == Lowercase \cup Uppercase
\* [A-Z0-9._%+-] and [A-Z0-9.-] under re.IGNORECASE
LocalChars == Letters \cup Digits \cup {".", "_", "%", "+", "-"}
DomainChars == Letters \cup Digits \cup {".", "-"}

UNKNOWN == <<"(", "u", "n", "k", "n", "o", "w", "n", ")">>

\* str.lower(), character by character
LowerChar(c) ==
    CASE c = "A" -> "a"
      [] c = "B" -> "b"
      [] c = "C" -> "c"
      [] c = "M" -> "m"
      [] c = "O" -> "o"
      [] c = "X" -> "x"
      [] OTHER -> c

lower(s) == [k \in DOMAIN s |-> LowerChar(s[k])]

\* str.strip()
strip(s) ==
    LET kept == {k \in DOMAIN s : s[k] \notin Whitespace}
    IN IF kept = {} THEN <<>> ELSE SubSeq(s, MinOf(kept), Max(kept))

\* first position at or after p whose character is outside class (Len(s)+1 if none)
RunEnd(s, p, class) ==
    MinOf({e \in p..(Len(s) + 1) : e = Len(s) + 1 \/ s[e] \notin class})

\* EMAIL_RE matched with its first character at p: the local part is the run
\* of local characters up to an '@'; the domain part is matched greedily and
\* gives back characters until a '.' followed by two letters is found.
\* <<>> when there is no match at p.
MatchAt(s, p) ==
    LET q == RunEnd(s, p, LocalChars)
    IN IF q = p \/ q > Len(s) THEN <<>>
       ELSE IF s[q] # "@" THEN <<>>
       ELSE LET e == RunEnd(s, q + 1, DomainChars)
                dots == {d \in (q + 2)..(e - 1) :
                            /\ s[d] = "."
                            /\ d + 2 <= Len(s)
                            /\ s[d + 1] \in Letters
                            /\ s[d + 2] \in Letters}
            IN IF dots = {} THEN <<>>
               ELSE SubSeq(s, p, RunEnd(s, Max(dots) + 1, Letters) - 1)

\* EMAIL_RE.search(s): group 1 of the leftmost match, <<>> when none
EMAIL_RE_search(s) ==
    LET starts == {p \in DOMAIN s : MatchAt(s, p) # <<>>}
    IN IF starts = {} THEN <<>> ELSE MatchAt(s, MinOf(starts))

extract_email_CaseSensitive(from_header) ==
    IF from_header = None \/ from_header = Some(<<>>) THEN UNKNOWN
    ELSE LET m == EMAIL_RE_search(from_header[1])
         IN IF m # <<>> THEN m ELSE strip(from_header[1])

extract_email(from_header) ==
    IF from_header = None \/ from_header = Some(<<>>) THEN UNKNOWN
    ELSE LET m == EMAIL_RE_search(from_header[1])
         IN IF m # <<>> THEN lower(m) ELSE lower(strip(from_header[1]))

\* positions of '@' in s
AtSigns(s) == {k \in DOMAIN s : s[k] = "@"}

\* email.split("@")[1]: the text between the first and the second '@'
SplitAt1(s) ==
    LET first == MinOf(AtSigns(s))
        later == {k \in AtSigns(s) : k > first}
    IN SubSeq(s, first + 1, IF later = {} THEN Len(s) ELSE MinOf(later) - 1)

extract_domain(email) ==
    IF email = UNKNOWN \/ AtSigns(email) = {} THEN UNKNOWN
    ELSE lower(SplitAt1(email))

\* a value that Python treats as true: present and not empty
Truthy(opt) == opt # None /\ opt[1] # <<>>

has_attachment_TopLevelOnly(payload) ==
    IF payload.parts = None THEN FALSE
    ELSE \E k \in DOMAIN payload.parts[1] :
            LET part == payload.parts[1][k]
            IN \/ Truthy(part.filename)
               \/ part.body # None /\ Truthy(part.body[1].attachmentId)

RECURSIVE has_attachment(_)
has_attachment(payload) ==
    IF payload.parts = None THEN FALSE
    ELSE \E k \in DOMAIN payload.parts[1] :
            LET part == payload.parts[1][k]
            IN \/ Truthy(part.filename)
               \/ part.body # None /\ Truthy(part.body[1].attachmentId)
               \/ Truthy(part.parts) /\ has_attachment([parts |-> part.parts])

\* datetime.fromtimestamp(int(ms) / 1000, utc).astimezone().date(), as the
\* number of the local day
iso_date_from_internal_ms(ms) == ((ms \div 1000) + utc_offset) \div 86400

\* msg.get("payload", {})
payload_of(msg) ==
    IF msg.payload = None THEN [headers |-> None, parts |-> None]
    ELSE msg.payload[1]

\* {h["name"]: h["value"] for h in payload.get("headers", [])}.get(name)
header_get(msg, name) ==
    LET hs == IF payload_of(msg).headers = None THEN <<>>
              ELSE payload_of(msg).headers[1]
        at == {k \in DOMAIN hs : hs[k].name = name}
    IN IF at = {} THEN None ELSE Some(hs[Max(at)].value)

\* int(msg.get("sizeEstimate", 0))
size_of(msg) == IF msg.sizeEstimate = None THEN 0 ELSE msg.sizeEstimate[1]

CanAggregate_NeedsPayload(msg) == msg.internalDate # None /\ msg.payload # None

\* msg["internalDate"] is the one subscript of the loop without a default
CanAggregate(msg) == msg.internalDate # None

(* Python dicts: insertion-ordered sequences of [key, val] *)

HasKey(d, k) == \E n \in DOMAIN d : d[n].key = k
IndexOf(d, k) == CHOOSE n \in DOMAIN d : d[n].key = k
Lookup(d, k, default) == IF HasKey(d, k) THEN d[IndexOf(d, k)].val ELSE default
Store(d, k, v) ==
    IF HasKey(d, k) THEN [d EXCEPT ![IndexOf(d, k)].val = v]
    ELSE Append(d, [key |-> k, val |-> v])

SenderStats == [message_count |-> 0, total_size_bytes |-> 0,
                messages_with_attachments |-> 0, emails |-> <<>>]

AddMessage_SkipsUnknown(stats, key, size, has_attach) ==
    IF key = UNKNOWN THEN stats
    ELSE LET s == Lookup(stats, key, SenderStats)
         IN Store(stats, key,
                  [s EXCEPT !.message_count = @ + 1,
                            !.total_size_bytes = @ + size,
                            !.messages_with_attachments =
                                IF has_attach = Some(TRUE) THEN @ + 1 ELSE @])

AddMessage_CountsPlainOnly(stats, key, size, has_attach) ==
    LET s == Lookup(stats, key, SenderStats)
    IN Store(stats, key,
             [s EXCEPT !.message_count =
                           IF has_attach = Some(TRUE) THEN @ ELSE @ + 1,
                       !.total_size_bytes = @ + size,
                       !.messages_with_attachments =
                           IF has_attach = Some(TRUE) THEN @ + 1 ELSE @])

\* stats[key].message_count += 1; stats[key].total_size_bytes += size;
\* if has_attach: stats[key].messages_with_attachments += 1
AddMessage(stats, key, size, has_attach) ==
    LET s == Lookup(stats, key, SenderStats)
    IN Store(stats, key,
             [s EXCEPT !.message_count = @ + 1,
                       !.total_size_bytes = @ + size,
                       !.messages_with_attachments =
                           IF has_attach = Some(TRUE) THEN @ + 1 ELSE @])

AddEmail_SetsOne(stats, domain, email) ==
    LET s == Lookup(stats, domain, SenderStats)
    IN Store(stats, domain, [s EXCEPT !.emails = Store(@, email, 1)])

\* stats[domain].emails[email] = stats[domain].emails.get(email, 0) + 1
AddEmail(stats, domain, email) ==
    LET s == Lookup(stats, domain, SenderStats)
    IN Store(stats, domain,
             [s EXCEPT !.emails = Store(@, email, Lookup(@, email, 0) + 1)])

(* The messages handed to the loop *)

S_a == <<"a", "@", "x", ".", "c", "o", "m">>
S_A == <<"A", "@", "X", ".", "C", "O", "M">>
S_b == <<"B", "o", " ", "<", "b", "@", "x", ".", "c", "o", "m", ">">>
S_c == <<"c", "@", "y", ".", "o", "r", "g">>
S_raw == <<"x", "@", "y", "@", "z">>
S_name == <<" ", "B", "o", " ">>
S_blank == <<" ", " ">>

Ms_D0 == 3600000
Ms_D0_late == 86399999
Ms_D1 == 90000000
Ms_epoch == 0

PlainPart == [filename |-> Some(<<>>), body |-> Some([attachmentId |-> None]),
              parts |-> None]
FilePart == [filename |-> Some(<<"f">>), body |-> Some([attachmentId |-> None]),
             parts |-> None]
IdPart == [filename |-> None, body |-> Some([attachmentId |-> Some(<<"1">>)]),
           parts |-> None]
NestedPart == [filename |-> Some(<<>>), body |-> None,
               parts |-> Some(<<PlainPart, IdPart>>)]

Msg(from, size, ms, parts) ==
    [payload |-> Some([headers |-> Some(<<[name |-> "Subject", value |-> <<"r">>],
                                          [name |-> "From", value |-> from]>>),
                       parts |-> parts]),
     sizeEstimate |-> Some(size),
     internalDate |-> Some(ms)]

M_a == Msg(S_a, 100, Ms_D0, None)
M_A == Msg(S_A, 200, Ms_D0_late, None)
M_nofrom ==
    [payload |-> Some([headers |-> Some(<<[name |-> "Subject", value |-> <<"r">>]>>),
                       parts |-> None]),
     sizeEstimate |-> Some(50), internalDate |-> Some(Ms_D1)]
M_b == Msg(S_b, 100, Ms_D0, Some(<<PlainPart, FilePart>>))
M_c == Msg(S_c, 200, Ms_D1, Some(<<NestedPart>>))
M_raw == Msg(S_raw, 50, Ms_D0, Some(<<>>))
M_a_id == Msg(S_a, 50, Ms_epoch, Some(<<IdPart>>))
M_name == Msg(S_name, 200, Ms_D0, Some(<<PlainPart>>))
M_blank == Msg(S_blank, 100, Ms_D0, None)
M_nopayload ==
    [payload |-> None, sizeEstimate |-> Some(100), internalDate |-> Some(Ms_D0)]
M_emptypayload ==
    [payload |-> Some([headers |-> None, parts |-> None]),
     sizeEstimate |-> None, internalDate |-> Some(Ms_D0)]
M_noheaders ==
    [payload |-> Some([headers |-> Some(<<>>), parts |-> None]),
     sizeEstimate |-> Some(50), internalDate |-> Some(Ms_D1)]
M_nosize ==
    [payload |-> Some([headers |-> Some(<<[name |-> "From", value |-> S_a]>>),
                       parts |-> None]),
     sizeEstimate |-> None, internalDate |-> Some(Ms_D0)]
M_nodate ==
    [payload |-> Some([headers |-> Some(<<[name |-> "From", value |-> S_a]>>),
                       parts |-> None]),
     sizeEstimate |-> Some(100), internalDate |-> None]

Messages == {M_a, M_A, M_nofrom, M_b, M_c, M_raw, M_a_id, M_name, M_blank,
             M_nopayload, M_emptypayload, M_noheaders, M_nosize, M_nodate}

UtcOffsets == {0 - 3600, 0}

(* Top-N views *)

TOP_N == 20

goes_before_OnTies(x, y, key) == y.val[key] <= x.val[key]

\* reverse=True with a stable sort: x moves ahead of an earlier item y only
\* when its key is strictly greater
goes_before(x, y, key) == y.val[key] < x.val[key]

RECURSIVE insert_sorted(_, _, _)
insert_sorted(sorted, x, key) ==
    IF sorted = <<>> THEN <<x>>
    ELSE IF goes_before(x, Head(sorted), key) THEN <<x>> \o sorted
    ELSE <<Head(sorted)>> \o insert_sorted(Tail(sorted), x, key)

RECURSIVE sort_from(_, _, _)
sort_from(sorted, rest, key) ==
    IF rest = <<>> THEN sorted
    ELSE sort_from(insert_sorted(sorted, Head(rest), key), Tail(rest), key)

\* sorted(items, key=lambda x: x[1].<key>, reverse=True): descending, items
\* with equal keys keep the order they have in items
sort_by(items, key) == sort_from(<<>>, items, key)

top(items, n) == SubSeq(items, 1, Min(n, Len(items)))

\* all_rows of export_top_senders_csv: the domain rows, then the email rows
all_rows(domains, emails) ==
    [k \in DOMAIN domains |->
        [level |-> "domain", key |-> domains[k].key, val |-> domains[k].val]]
    \o [k \in DOMAIN emails |->
        [level |-> "email", key |-> emails[k].key, val |-> emails[k].val]]

(* Actions *)

\* the body of `for msg in messages` for one message
AggregateOne(msg) ==
    LET from_email == extract_email(header_get(msg, "From"))
        domain == extract_domain(from_email)
        iso_date == iso_date_from_internal_ms(msg.internalDate[1])
        size == size_of(msg)
        has_attach == IF has_attachment_data
                      THEN Some(has_attachment(payload_of(msg)))
                      ELSE None
    IN /\ messages' = Append(messages, msg)
       /\ rows' = Append(rows, [from_email |-> from_email,
                                domain |-> domain,
                                iso_date |-> iso_date,
                                size |-> size,
                                has_attach |-> has_attach])
       /\ by_day' = Store(by_day, iso_date, Lookup(by_day, iso_date, 0) + 1)
       /\ total_size' = total_size + size
       /\ email_stats' = AddMessage(email_stats, from_email, size, has_attach)
       /\ domain_stats' =
             AddEmail(AddMessage(domain_stats, domain, size, has_attach),
                      domain, from_email)

\* one iteration of `for msg in messages`
AggregateMessage ==
    /\ apc = "aggregating"
    /\ Len(messages) < MaxMessages
    /\ \E msg \in Messages :
        /\ CanAggregate(msg)
        /\ AggregateOne(msg)
    /\ UNCHANGED <<has_attachment_data, utc_offset, apc, views>>
    /\ UNCHANGED <<cfgVars, tallyVars, fetchVars, listVars, randVars, dbVars, mainVars>>

\* the iteration whose message makes a subscript raise KeyError
AggregateRaises ==
    /\ apc = "aggregating"
    /\ Len(messages) < MaxMessages
    /\ \E msg \in Messages :
        /\ ~CanAggregate(msg)
        /\ messages' = Append(messages, msg)
    /\ apc' = "raised"
    /\ UNCHANGED <<has_attachment_data, utc_offset, rows, by_day, total_size,
                   email_stats, domain_stats, views>>
    /\ UNCHANGED <<cfgVars, tallyVars, fetchVars, listVars, randVars, dbVars, mainVars>>

\* the console rankings and the rows of the two CSV files
rankings(domains, emails) ==
    [sorted_domains |-> top(sort_by(domains, "message_count"), TOP_N),
     sorted_emails |-> top(sort_by(emails, "message_count"), TOP_N),
     sorted_domains_size |-> top(sort_by(domains, "total_size_bytes"), TOP_N),
     sorted_by_count |-> sort_by(all_rows(domains, emails), "message_count"),
     sorted_by_size |-> sort_by(all_rows(domains, emails), "total_size_bytes")]

\* after the loop: the console rankings and the two CSV files
Report ==
    /\ apc = "aggregating"
    /\ apc' = "reported"
    /\ views' = rankings(domain_stats, email_stats)
    /\ UNCHANGED <<messages, has_attachment_data, utc_offset, rows, by_day,
                   total_size, email_stats, domain_stats>>
    /\ UNCHANGED <<cfgVars, tallyVars, fetchVars, listVars, randVars, dbVars, mainVars>>

InitAgg ==
    /\ MAX_RETRIES = DEFAULT_MAX_RETRIES
    /\ INITIAL_RETRY_DELAY = DEFAULT_INITIAL_RETRY_DELAY
    /\ MAX_RETRY_DELAY = DEFAULT_MAX_RETRY_DELAY
    /\ SLEEP_EVERY_N_BATCHES = DEFAULT_SLEEP_EVERY_N_BATCHES
    /\ REQUEST_TOTAL = 0
    /\ REQUESTS_BY_ENDPOINT = [e \in Endpoints |-> 0]
    /\ FetchIdle
    /\ ListIdle
    /\ messages = <<>>
    /\ has_attachment_data \in BOOLEAN
    /\ utc_offset \in UtcOffsets
    /\ rows = <<>>
    /\ by_day = <<>>
    /\ total_size = 0
    /\ email_stats = <<>>
    /\ domain_stats = <<>>
    /\ apc = "aggregating"
    /\ views = NoViews
    /\ DbIdle
    /\ MainIdle

NextAgg ==
    \/ AggregateMessage
    \/ AggregateRaises
    \/ Report

SpecAgg == InitAgg /\ [][NextAgg]_vars

------------------------------------------------------------------------------
(* save_run and get_summary over the SQLite database *)

\* The rows save_run is called with: the domain rows, then the email rows.
StatRows(n) ==
    [k \in 1..n |-> [aggregation_level |-> IF k = 1 THEN "domain" ELSE "email",
                     sender |-> k]]

close_without_commit_Autocommit(committed, pending) == committed \cup pending

\* conn.close() with an open transaction, or a crash: SQLite rolls the
\* transaction back, the database keeps what was committed
close_without_commit(committed, pending) == committed

lastrowid_Reused(seq) == IF seq = 0 THEN 1 ELSE seq

\* run_id INTEGER PRIMARY KEY AUTOINCREMENT: one more than the largest id the
\* table ever committed
lastrowid(seq) == seq + 1

\* cursor.execute(INSERT INTO runs ...); run_id = cursor.lastrowid, for a
\* call of save_run with the given sender rows
insert_run(stat_rows) ==
    /\ todo' = stat_rows
    /\ calls' = Append(calls, [run_id |-> lastrowid(db_seq),
                               rows |-> stat_rows,
                               inserted |-> 0, outcome |-> "open"])
    /\ run_id' = lastrowid(db_seq)
    /\ tx_runs' = {lastrowid(db_seq)}
    /\ wpc' = "inserting"

SaveBegin ==
    /\ wpc = "idle"
    /\ Len(calls) < MaxRuns
    /\ \E n \in 0..MaxStatRows : insert_run(StatRows(n))
    /\ UNCHANGED <<db_runs, db_stats, db_seq, tx_stats, rpc, reader_run, reads>>
    /\ UNCHANGED <<cfgVars, tallyVars, fetchVars, listVars, randVars, aggVars, mainVars>>

\* one cursor.execute(INSERT INTO sender_stats ...) of the two loops
SaveInsertStat ==
    /\ wpc = "inserting"
    /\ todo # <<>>
    /\ tx_stats' = tx_stats \cup
            {[run_id |-> run_id,
              aggregation_level |-> Head(todo).aggregation_level,
              sender |-> Head(todo).sender]}
    /\ todo' = Tail(todo)
    /\ calls' = [calls EXCEPT ![Len(calls)].inserted = @ + 1]
    /\ UNCHANGED <<db_runs, db_stats, db_seq, tx_runs, run_id, wpc, rpc,
                   reader_run, reads>>
    /\ UNCHANGED <<cfgVars, tallyVars, fetchVars, listVars, randVars, aggVars, mainVars>>

\* conn.commit(); return run_id; finally: conn.close()
SaveCommit ==
    /\ wpc = "inserting"
    /\ todo = <<>>
    /\ db_runs' = db_runs \cup tx_runs
    /\ db_stats' = db_stats \cup tx_stats
    /\ db_seq' = run_id
    /\ tx_runs' = {}
    /\ tx_stats' = {}
    /\ calls' = [calls EXCEPT ![Len(calls)].outcome = "committed"]
    /\ wpc' = "idle"
    /\ UNCHANGED <<run_id, todo, rpc, reader_run, reads>>
    /\ UNCHANGED <<cfgVars, tallyVars, fetchVars, listVars, randVars, aggVars, mainVars>>

\* an exception or a crash anywhere between the run insert and the commit:
\* the connection is closed (finally) or lost with the transaction open
SaveFails ==
    /\ wpc = "inserting"
    /\ db_runs' = close_without_commit(db_runs, tx_runs)
    /\ db_stats' = close_without_commit(db_stats, tx_stats)
    /\ tx_runs' = {}
    /\ tx_stats' = {}
    /\ todo' = <<>>
    /\ calls' = [calls EXCEPT ![Len(calls)].outcome = "failed"]
    /\ wpc' = "idle"
    /\ UNCHANGED <<db_seq, run_id, rpc, reader_run, reads>>
    /\ UNCHANGED <<cfgVars, tallyVars, fetchVars, listVars, randVars, aggVars, mainVars>>

\* get_summary, first SELECT: the most recent run another connection can see
\* (timestamps grow with run_id); without a run it answers "No runs found"
ReaderSelectRun ==
    /\ rpc = "idle"
    /\ Len(reads) < MaxReads
    /\ IF db_runs = {}
       THEN /\ reads' = Append(reads, [run_id |-> 0, rows |-> {}, during |-> wpc])
            /\ UNCHANGED <<rpc, reader_run>>
       ELSE /\ reader_run' = CHOOSE r \in db_runs : \A o \in db_runs : o <= r
            /\ rpc' = "have_run"
            /\ UNCHANGED reads
    /\ UNCHANGED <<db_runs, db_stats, db_seq, tx_runs, tx_stats, wpc, run_id,
                   todo, calls>>
    /\ UNCHANGED <<cfgVars, tallyVars, fetchVars, listVars, randVars, aggVars, mainVars>>

\* get_summary, second SELECT: the sender_stats rows of that run
ReaderSelectStats ==
    /\ rpc = "have_run"
    /\ reads' = Append(reads,
                       [run_id |-> reader_run,
                        rows |-> {r \in db_stats : r.run_id = reader_run},
                        during |-> wpc])
    /\ rpc' = "idle"
    /\ UNCHANGED <<db_runs, db_stats, db_seq, tx_runs, tx_stats, wpc, run_id,
                   todo, calls, reader_run>>
    /\ UNCHANGED <<cfgVars, tallyVars, fetchVars, listVars, randVars, aggVars, mainVars>>

InitDb ==
    /\ MAX_RETRIES = DEFAULT_MAX_RETRIES
    /\ INITIAL_RETRY_DELAY = DEFAULT_INITIAL_RETRY_DELAY
    /\ MAX_RETRY_DELAY = DEFAULT_MAX_RETRY_DELAY
    /\ SLEEP_EVERY_N_BATCHES = DEFAULT_SLEEP_EVERY_N_BATCHES
    /\ REQUEST_TOTAL = 0
    /\ REQUESTS_BY_ENDPOINT = [e \in Endpoints |-> 0]
    /\ FetchIdle
    /\ ListIdle
    /\ AggIdle
    /\ DbIdle
    /\ MainIdle

NextDb ==
    \/ SaveBegin
    \/ SaveInsertStat
    \/ SaveCommit
    \/ SaveFails
    \/ ReaderSelectRun
    \/ ReaderSelectStats

SpecDb == InitDb /\ [][NextDb]_vars

------------------------------------------------------------------------------
(* main: profile, sampling, fetch, aggregation, save_run, report *)

MaxMainPages == 2
MaxMainPageSize == 1
MaxMainCount == 1
MaxMainRetries == 1
MaxLabels == 1

MainStores == StoresOf(MaxMainPages, MaxMainPageSize)

\* the message the store holds under an identifier
MessageTable == <<M_a, M_b, M_nofrom, M_A>>
MessageOf(id) == MessageTable[((id - 1) % Len(MessageTable)) + 1]

HEADER == "Mailbox Stats Report"
NO_MESSAGES == "No messages found for time window."
EXPORT == "CSV exports written:"
Sections == <<"Total messages scanned", "Top Senders by Message Count",
              "Top Senders by Total Size", "Done.">>

\* ids = list_all_message_ids_random(...) or list_all_message_ids(...)
sampler_result == IF random_sample THEN sampled_ids ELSE ids

no_ids_Never(xs) == FALSE

\* if not ids:
no_ids(xs) == xs = <<>>

\* domain_stats.items() then email_stats.items(), as save_run inserts them
stat_rows(domains, emails) ==
    [k \in 1..Len(domains) |->
        [aggregation_level |-> "domain", sender |-> domains[k].key]] \o
    [k \in 1..Len(emails) |->
        [aggregation_level |-> "email", sender |-> emails[k].key]]

\* getProfile, the banner, label_counts, then the call of the chosen sampler
MainStart ==
    /\ mpc = "start"
    /\ \E labels \in 0..MaxLabels :
        LET t1 == count_request(<<REQUEST_TOTAL, REQUESTS_BY_ENDPOINT>>,
                                "users.getProfile", 1)
            t2 == count_request(t1, "users.labels.list", 1)
            t3 == count_request(t2, "users.labels.get", labels)
        IN /\ REQUEST_TOTAL' = t3[1]
           /\ REQUESTS_BY_ENDPOINT' = t3[2]
    /\ out' = Append(out, HEADER)
    /\ lpc' = IF random_sample THEN "random_listing" ELSE "listing"
    /\ mpc' = "sampling"
    /\ UNCHANGED <<store, max_ids, ids, page_token, page, lraised, listLog>>
    /\ UNCHANGED random_sample
    /\ UNCHANGED <<cfgVars, fetchVars, randVars, aggVars, dbVars>>

\* the getProfile request raises: nothing is printed, the error leaves main
MainStartFails ==
    /\ mpc = "start"
    /\ LET t == count_request(<<REQUEST_TOTAL, REQUESTS_BY_ENDPOINT>>,
                              "users.getProfile", 1)
       IN /\ REQUEST_TOTAL' = t[1]
          /\ REQUESTS_BY_ENDPOINT' = t[2]
    /\ mpc' = "raised"
    /\ UNCHANGED <<random_sample, out>>
    /\ UNCHANGED <<cfgVars, fetchVars, listVars, randVars, aggVars, dbVars>>

\* the sampler raised: main has no handler around the call
MainSamplerRaised ==
    /\ mpc = "sampling"
    /\ lpc = "raised"
    /\ mpc' = "raised"
    /\ UNCHANGED <<random_sample, out>>
    /\ UNCHANGED <<cfgVars, tallyVars, fetchVars, listVars, randVars, aggVars, dbVars>>

\* if not ids: print("No messages found for time window."); return
MainNoIds ==
    /\ mpc = "sampling"
    /\ lpc = "returned"
    /\ no_ids(sampler_result)
    /\ out' = Append(out, NO_MESSAGES)
    /\ mpc' = "returned"
    /\ UNCHANGED random_sample
    /\ UNCHANGED <<cfgVars, tallyVars, fetchVars, listVars, randVars, aggVars, dbVars>>

\* messages = batch_get_metadata(service, ids, full_metadata=args.random_sample)
MainFetch ==
    /\ mpc = "sampling"
    /\ lpc = "returned"
    /\ ~no_ids(sampler_result)
    /\ msg_ids' = sampler_result
    /\ pc' = "for_chunk"
    /\ mpc' = "fetching"
    /\ UNCHANGED <<results, errors, i, attempt, retry_delay, raised, execLog, sleepLog>>
    /\ UNCHANGED <<random_sample, out>>
    /\ UNCHANGED <<cfgVars, tallyVars, listVars, randVars, aggVars, dbVars>>

MainFetcherRaised_Swallows ==
    /\ mpc = "fetching"
    /\ pc = "raised"
    /\ has_attachment_data' = random_sample
    /\ apc' = "aggregating"
    /\ mpc' = "aggregating"
    /\ UNCHANGED <<messages, utc_offset, rows, by_day, total_size, email_stats,
                   domain_stats, views>>
    /\ UNCHANGED <<random_sample, out>>
    /\ UNCHANGED <<cfgVars, tallyVars, fetchVars, listVars, randVars, dbVars>>

\* batch_get_metadata raised: main has no handler around the call
MainFetcherRaised ==
    /\ mpc = "fetching"
    /\ pc = "raised"
    /\ mpc' = "raised"
    /\ UNCHANGED <<random_sample, out>>
    /\ UNCHANGED <<cfgVars, tallyVars, fetchVars, listVars, randVars, aggVars, dbVars>>

\* batch_get_metadata returned: the empty tables before `for msg in messages`
MainAggregate ==
    /\ mpc = "fetching"
    /\ pc = "returned"
    /\ has_attachment_data' = random_sample
    /\ apc' = "aggregating"
    /\ mpc' = "aggregating"
    /\ UNCHANGED <<messages, utc_offset, rows, by_day, total_size, email_stats,
                   domain_stats, views>>
    /\ UNCHANGED <<random_sample, out>>
    /\ UNCHANGED <<cfgVars, tallyVars, fetchVars, listVars, randVars, dbVars>>

\* one iteration of `for msg in messages` over the fetched messages
MainAggregateMessage ==
    /\ mpc = "aggregating"
    /\ Len(messages) < Len(results)
    /\ AggregateOne(MessageOf(results[Len(messages) + 1]))
    /\ UNCHANGED <<has_attachment_data, utc_offset, apc, views>>
    /\ UNCHANGED <<cfgVars, tallyVars, fetchVars, listVars, randVars, dbVars, mainVars>>

\* run_id = save_run(..., domain_stats=dict(domain_stats), email_stats=dict(email_stats))
MainSave ==
    /\ mpc = "aggregating"
    /\ Len(messages) = Len(results)
    /\ insert_run(stat_rows(domain_stats, email_stats))
    /\ mpc' = "saving"
    /\ UNCHANGED <<db_runs, db_stats, db_seq, tx_stats, rpc, reader_run, reads>>
    /\ UNCHANGED <<random_sample, out>>
    /\ UNCHANGED <<cfgVars, tallyVars, fetchVars, listVars, randVars, aggVars>>

\* save_run raised: main has no handler around the call
MainSaveRaised ==
    /\ mpc = "saving"
    /\ wpc = "idle"
    /\ calls[Len(calls)].outcome = "failed"
    /\ mpc' = "raised"
    /\ UNCHANGED <<random_sample, out>>
    /\ UNCHANGED <<cfgVars, tallyVars, fetchVars, listVars, randVars, aggVars, dbVars>>

\* save_run returned: the optional CSV export, then the printed analysis
MainReport ==
    /\ mpc = "saving"
    /\ wpc = "idle"
    /\ calls[Len(calls)].outcome = "committed"
    /\ views' = rankings(domain_stats, email_stats)
    /\ apc' = "reported"
    /\ \E export_csv \in BOOLEAN :
         out' = out \o (IF export_csv THEN <<EXPORT>> ELSE <<>>) \o Sections
    /\ mpc' = "done"
    /\ UNCHANGED <<messages, has_attachment_data, utc_offset, rows, by_day,
                   total_size, email_stats, domain_stats>>
    /\ UNCHANGED random_sample
    /\ UNCHANGED <<cfgVars, tallyVars, fetchVars, listVars, randVars, dbVars>>

InitMain ==
    /\ MAX_RETRIES \in 0..MaxMainRetries
    /\ INITIAL_RETRY_DELAY = DEFAULT_INITIAL_RETRY_DELAY
    /\ MAX_RETRY_DELAY = DEFAULT_MAX_RETRY_DELAY
    /\ SLEEP_EVERY_N_BATCHES = DEFAULT_SLEEP_EVERY_N_BATCHES
    /\ REQUEST_TOTAL = 0
    /\ REQUESTS_BY_ENDPOINT = [e \in Endpoints |-> 0]
    /\ store \in MainStores
    /\ max_ids \in 0..MaxMainCount
    /\ ids = <<>>
    /\ page_token = 0
    /\ page = 0
    /\ lpc = "idle"
    /\ lraised = FALSE
    /\ listLog = <<>>
    /\ all_ids = <<>>
    /\ sampled_ids = <<>>
    /\ FetchIdle
    /\ AggIdle
    /\ DbIdle
    /\ mpc = "start"
    /\ random_sample \in BOOLEAN
    /\ out = <<>>

NextMain ==
    \/ MainStart
    \/ MainStartFails
    \/ ListPage
    \/ ListPageFails
    \/ RandomListPage
    \/ RandomListPageFails
    \/ MainSamplerRaised
    \/ MainNoIds
    \/ MainFetch
    \/ NextChunk
    \/ Return
    \/ AttemptsExhausted
    \/ AttemptSuccess
    \/ AttemptHttpError
    \/ AttemptException
    \/ MainFetcherRaised
    \/ MainAggregate
    \/ MainAggregateMessage
    \/ MainSave
    \/ SaveInsertStat
    \/ SaveCommit
    \/ SaveFails
    \/ MainSaveRaised
    \/ MainReport

SpecMain == InitMain /\ [][NextMain]_vars

------------------------------------------------------------------------------
(* Observations over the logs *)

Batches == 1..Len(chunked(msg_ids, SAFE_BATCH_SIZE))

\* positions of the composite requests executed for group b
ExecsOf(b) == {k \in DOMAIN execLog : execLog[k].batch = b}

Executes(b) == Cardinality(ExecsOf(b))

\* a retry is an attempt made after the first attempt of the same group
Retries(b) ==
    Cardinality({k \in ExecsOf(b) : \E j \in ExecsOf(b) : j < k})

\* every composite request of group b so far was answered with 403 or 429
AlwaysRateLimited(b) ==
    /\ ExecsOf(b) # {}
    /\ \A k \in ExecsOf(b) : execLog[k].outcome = "rate_limit"

\* the backoff sleeps of group b, in order
BackoffsOf(b) ==
    LET IsBackoff(s) == s.kind = "backoff" /\ s.batch = b
    IN SelectSeq(sleepLog, IsBackoff)

RECURSIVE Pow2(_)
Pow2(n) == IF n = 0 THEN 1 ELSE 2 * Pow2(n - 1)

Ceil(n, d) == IF n % d = 0 THEN n \div d ELSE (n \div d) + 1

Done == pc \in {"returned", "raised"}

------------------------------------------------------------------------------
(* C1..C8: batch_get_metadata, checked under Spec (C4 under FairSpec, C8
   under SpecBackoff) *)

\* C1 as stated: a group that is always rate-limited is retried exactly
\* MAX_RETRIES times before the failure is raised, and a group that succeeds
\* on attempt k is retried exactly k-1 times.
C1_AsStated ==
    /\ (pc = "raised" /\ AlwaysRateLimited(i)) => Retries(i) = MAX_RETRIES
    /\ \A k \in DOMAIN execLog :
         execLog[k].outcome = "ok" =>
             Retries(execLog[k].batch) = (execLog[k].attempt + 1) - 1

\* C1 (amended): a group that is always rate-limited is attempted exactly
\* MAX_RETRIES times, that is retried exactly MAX_RETRIES - 1 times, and then
\* the failure is raised; a group that first succeeds on attempt k
\* (1 <= k <= MAX_RETRIES) is retried exactly k-1 times.
C1_RetryCount ==
    /\ (pc = "raised" /\ AlwaysRateLimited(i)) =>
           /\ Executes(i) = MAX_RETRIES
           /\ Retries(i) = MAX_RETRIES - 1
    /\ \A b \in Batches :
           (AlwaysRateLimited(b) /\ Executes(b) >= MAX_RETRIES) =>
               (pc = "raised" /\ i = b)
    /\ \A k \in DOMAIN execLog :
         execLog[k].outcome = "ok" =>
             /\ execLog[k].attempt + 1 \in 1..MAX_RETRIES
             /\ Retries(execLog[k].batch) = (execLog[k].attempt + 1) - 1

C1_Witness ==
    /\ pc = "raised"
    /\ i = 2
    /\ AlwaysRateLimited(2)
    /\ MAX_RETRIES = 3
    /\ Retries(2) = 2
    /\ \E k \in ExecsOf(1) : execLog[k].outcome = "ok" /\ execLog[k].attempt = 1

\* C2: for MAX_RETRIES >= 1, a group whose every composite request is
\* rate-limited has batch.execute called exactly MAX_RETRIES times, then the
\* HttpError propagates and no later group is attempted.
C2_ExhaustedRaises ==
    MAX_RETRIES >= 1 =>
        \A b \in Batches :
            AlwaysRateLimited(b) =>
                /\ Executes(b) <= MAX_RETRIES
                /\ (pc = "raised" => Executes(b) = MAX_RETRIES)
                /\ Executes(b) = MAX_RETRIES =>
                       /\ pc = "raised"
                       /\ raised.type = "HttpError"
                       /\ raised.status \in {403, 429}
                       /\ \A c \in Batches : c > b => Executes(c) = 0

C2_Witness ==
    /\ pc = "raised"
    /\ raised = [type |-> "HttpError", status |-> 429]
    /\ MAX_RETRIES = 3
    /\ i = 1
    /\ Len(chunked(msg_ids, SAFE_BATCH_SIZE)) = 3
    /\ AlwaysRateLimited(1)
    /\ Executes(1) = 3

IsHardFailure(e) == e.outcome \in {"http_error", "exception"}

\* C3 as stated: a failure that is not a rate-limit signal is raised after
\* exactly one attempt of its group, with no backoff sleep of that group.
C3_AsStated ==
    \A k \in DOMAIN execLog :
        IsHardFailure(execLog[k]) =>
            /\ pc = "raised"
            /\ Executes(execLog[k].batch) = 1
            /\ BackoffsOf(execLog[k].batch) = <<>>
            /\ k = Len(execLog)

\* C3 (amended): a failure that is not a rate-limit signal is raised by the
\* attempt on which it occurs: no sleep follows it, the group is not attempted
\* again and no later group is attempted; the group has had exactly one
\* attempt when the failure occurs on the group's first attempt.
C3_NoRetryOnHardFailure ==
    \A k \in DOMAIN execLog :
        IsHardFailure(execLog[k]) =>
            /\ pc = "raised"
            /\ raised.type # "none"
            /\ ~(raised.type = "HttpError" /\ raised.status \in {403, 429})
            /\ k = Len(execLog)
            /\ \A s \in DOMAIN sleepLog : sleepLog[s].afterExec < k
            /\ execLog[k].attempt = 0 =>
                   /\ Executes(execLog[k].batch) = 1
                   /\ BackoffsOf(execLog[k].batch) = <<>>

C3_Witness ==
    /\ pc = "raised"
    /\ raised = [type |-> "ConnectionError", status |-> 0]
    /\ i = 1
    /\ Len(chunked(msg_ids, SAFE_BATCH_SIZE)) = 2
    /\ Executes(1) = 1
    /\ MAX_RETRIES = 3

\* C4: the number of attempts made on any single group never exceeds
\* MAX_RETRIES, and every call eventually returns or raises.
C4_Terminates ==
    /\ [](\A b \in Batches : Executes(b) <= MAX_RETRIES)
    /\ <>Done

C4_Witness ==
    /\ pc = "returned"
    /\ MAX_RETRIES = 3
    /\ Len(msg_ids) = 11
    /\ Executes(1) = MAX_RETRIES
    /\ Executes(2) = MAX_RETRIES

\* some group has ended in a group-level failure
GroupFailed ==
    \/ \E k \in DOMAIN execLog : IsHardFailure(execLog[k])
    \/ \E b \in Batches : AlwaysRateLimited(b) /\ Executes(b) >= MAX_RETRIES

\* C5: the call returns at most |ids| metadata objects or raises; once a group
\* has ended in a group-level failure the call has raised and the accumulated
\* list is never returned.
C5_ReturnOrRaise ==
    /\ pc = "returned" => Len(results) <= Len(msg_ids)
    /\ GroupFailed => pc = "raised"
    /\ pc = "raised" => GroupFailed

C5_Witness ==
    /\ pc = "raised"
    /\ GroupFailed
    /\ i = 2
    /\ Len(results) = SAFE_BATCH_SIZE

\* the items whose per-item callback carried a response
Succeeded ==
    UNION {{execLog[k].reqs[j] : j \in DOMAIN execLog[k].reqs} \ execLog[k].bad :
           k \in {x \in DOMAIN execLog : execLog[x].outcome = "ok"}}

\* C6: per-item errors in a successful composite request neither raise nor
\* retry; the returned list holds exactly the responses of the items that
\* succeeded, the failed items are omitted.
C6_PartialItemFailure ==
    /\ \A k \in DOMAIN execLog :
         execLog[k].outcome = "ok" =>
             /\ k = Len(execLog) => pc # "raised"
             /\ k < Len(execLog) => execLog[k + 1].batch = execLog[k].batch + 1
    /\ pc = "returned" =>
         LET Kept(m) == m \in Succeeded
         IN results = SelectSeq(msg_ids, Kept)

C6_Witness ==
    /\ pc = "returned"
    /\ Len(msg_ids) = 12
    /\ \E k \in DOMAIN execLog : execLog[k].outcome = "ok" /\ execLog[k].bad = {1}
    /\ Len(results) = 11
    /\ Len(execLog) = 2

Chunks == chunked(msg_ids, SAFE_BATCH_SIZE)

\* C7: the ids are partitioned into ceil(n/10) consecutive groups, all of
\* size 10 but the last, which has 1..10; concatenated they equal ids; every
\* composite request carries one of these groups, and none is made for no ids.
C7_Partition ==
    /\ Len(Chunks) = Ceil(Len(msg_ids), 10)
    /\ \A g \in DOMAIN Chunks :
         /\ g < Len(Chunks) => Len(Chunks[g]) = 10
         /\ Len(Chunks[g]) \in 1..10
    /\ Flatten(Chunks) = msg_ids
    /\ \A k \in DOMAIN execLog : execLog[k].reqs = Chunks[execLog[k].batch]
    /\ msg_ids = <<>> => execLog = <<>>
    /\ (pc = "returned" /\ MAX_RETRIES >= 1) =>
         \A g \in DOMAIN Chunks : \E k \in ExecsOf(g) : execLog[k].outcome = "ok"

C7_Witness ==
    /\ pc = "returned"
    /\ Len(msg_ids) = 25
    /\ Len(execLog) = 3
    /\ Len(execLog[1].reqs) = 10
    /\ Len(execLog[2].reqs) = 10
    /\ Len(execLog[3].reqs) = 5

\* C8: the n-th backoff sleep of a group lasts
\* min(INITIAL_RETRY_DELAY * 2^(n-1), MAX_RETRY_DELAY), which never exceeds
\* MAX_RETRY_DELAY, and every group starts again from INITIAL_RETRY_DELAY.
C8_AsStated ==
    \A b \in Batches :
        \A n \in DOMAIN BackoffsOf(b) :
            /\ BackoffsOf(b)[n].dur =
                   Min(INITIAL_RETRY_DELAY * Pow2(n - 1), MAX_RETRY_DELAY)
            /\ BackoffsOf(b)[n].dur <= MAX_RETRY_DELAY

------------------------------------------------------------------------------
(* C9, C10: list_all_message_ids, checked under SpecList *)

RECURSIVE SumLen(_)
SumLen(pages) == IF pages = <<>> THEN 0 ELSE Len(Head(pages)) + SumLen(Tail(pages))

\* the least number of pages of the chain that hold max_ids identifiers,
\* or the whole chain when it holds fewer
PagesNeeded ==
    LET enough == {p \in 1..Len(store) : SumLen(SubSeq(store, 1, p)) >= max_ids}
    IN IF enough = {} THEN Len(store)
       ELSE CHOOSE p \in enough : \A q \in enough : p <= q

\* C9: with max_ids > 0 no list request is issued once max_ids identifiers
\* are collected; the call returns as soon as the count is reached and issues
\* no more page requests than needed to reach it.
C9_EarlyStop ==
    max_ids > 0 =>
        /\ \A k \in DOMAIN listLog : listLog[k].collected < max_ids
        /\ Len(ids) <= max_ids
        /\ Len(ids) = max_ids => lpc = "returned"
        /\ Len(listLog) <= PagesNeeded

C9_Witness ==
    /\ lpc = "returned"
    /\ max_ids = 4
    /\ Len(ids) = 4
    /\ Len(listLog) = 2
    /\ Len(store) = 3
    /\ SumLen(store) > 6

\* C10: the call returns the first min(max_ids, N) identifiers of the store in
\* store order when max_ids > 0, and all N when max_ids = 0, after having
\* followed the chain to the page without a token; an empty store gives an
\* empty list, without error.
C10_Result ==
    lpc = "returned" =>
        LET all == Flatten(store)
            N   == Len(all)
        IN /\ ~lraised
           /\ max_ids > 0 => ids = SubSeq(all, 1, Min(max_ids, N))
           /\ max_ids = 0 => (ids = all /\ Len(listLog) = Len(store))
           /\ N = 0 => ids = <<>>

C10_Witness ==
    /\ lpc = "returned"
    /\ max_ids = 5
    /\ Len(store) = 3
    /\ SumLen(store) = 4
    /\ Len(ids) = 4

C10_WitnessUnlimited ==
    /\ lpc = "returned"
    /\ max_ids = 0
    /\ Len(ids) = 9

------------------------------------------------------------------------------
(* Random sampler *)

\* the candidate identifiers of the query: every page of the chain
Candidates == Flatten(store)

NoDuplicates(xs) == \A a, b \in DOMAIN xs : xs[a] = xs[b] => a = b

Elems(xs) == {xs[k] : k \in DOMAIN xs}

\* C11: in random mode every page of the chain is requested before sampling:
\* when the call returns, the list requests issued are exactly the pages of
\* the chain, in chain order, and the collected identifiers are all the
\* candidates, whatever max_ids is.
C11_AllPagesFetched ==
    lpc = "returned" =>
        /\ Len(listLog) = Len(store)
        /\ \A k \in DOMAIN listLog : listLog[k].pageToken = k - 1
        /\ all_ids = Candidates

\* the first page alone already holds max_ids identifiers, and the second page
\* was still requested
C11_Witness ==
    /\ lpc = "returned"
    /\ Len(store) = 2
    /\ max_ids > 0
    /\ Len(store[1]) >= max_ids
    /\ Len(listLog) = 2

\* C12: the random sampler returns min(max_ids, N) identifiers when
\* max_ids > 0 and N when max_ids = 0; they are candidates, without
\* duplicates, and set-equal to the candidates when max_ids = 0 or max_ids >= N.
C12_SampleShape ==
    lpc = "returned" =>
        LET N == Len(Candidates)
        IN /\ Len(sampled_ids) = IF max_ids > 0 THEN Min(max_ids, N) ELSE N
           /\ Elems(sampled_ids) \subseteq Elems(Candidates)
           /\ NoDuplicates(sampled_ids)
           /\ (max_ids = 0 \/ max_ids >= N) =>
                  Elems(sampled_ids) = Elems(Candidates)

\* a proper sample, drawn out of candidate order
C12_Witness ==
    /\ lpc = "returned"
    /\ max_ids = 2
    /\ Len(Candidates) = 4
    /\ sampled_ids = <<4, 1>>

\* C13: in both modes a failing list request is the last request of the call:
\* its page is requested once, the call ends raising, and nothing is returned,
\* whatever the status of the failure (403 and 429 included).
C13_ListFailureFatal ==
    \A k \in DOMAIN listLog :
        listLog[k].status # 200 =>
            /\ k = Len(listLog)
            /\ \A j \in DOMAIN listLog :
                   listLog[j].pageToken = listLog[k].pageToken => j = k
            /\ lpc = "raised"
            /\ lraised
            /\ sampled_ids = <<>>

\* a rate-limit answer to the second page, after the first page was collected
C13_Witness ==
    /\ Len(listLog) = 2
    /\ listLog[2].status = 429
    /\ all_ids # <<>>
    /\ lpc = "raised"

\* the same in chronological mode
C13_WitnessChronological ==
    /\ Len(listLog) = 2
    /\ listLog[2].status = 429
    /\ ids # <<>>
    /\ lpc = "raised"

------------------------------------------------------------------------------
(* Aggregation *)

RECURSIVE SumOver(_, _)
SumOver(seq, field) ==
    IF seq = <<>> THEN 0 ELSE Head(seq)[field] + SumOver(Tail(seq), field)

StatsOf(stats) == [k \in DOMAIN stats |-> stats[k].val]

\* the iterations whose normalized sender (domain) is key
RowsOfEmail(key) == {k \in DOMAIN rows : rows[k].from_email = key}
RowsOfDomain(key) == {k \in DOMAIN rows : rows[k].domain = key}

RECURSIVE SizeSum(_)
SizeSum(K) ==
    IF K = {} THEN 0
    ELSE LET k == CHOOSE x \in K : TRUE IN rows[k].size + SizeSum(K \ {k})

\* C14: at every point of the loop the daily counts add up to the number of
\* messages processed, and so do the message counts of the address-level
\* statistics.
C14_Conservation ==
    /\ SumOver(by_day, "val") = Len(rows)
    /\ SumOver(StatsOf(email_stats), "message_count") = Len(rows)
    /\ apc # "raised" => Len(rows) = Len(messages)

\* three messages on two days, one of them without sender
C14_Witness ==
    /\ Len(rows) = 3
    /\ Len(by_day) = 2
    /\ HasKey(email_stats, UNKNOWN)
    /\ Len(email_stats) = 2

\* C15: for every sender of either level, the number of messages with
\* attachments never exceeds the number of messages.
C15_AttachmentsBounded ==
    /\ \A n \in DOMAIN email_stats :
         email_stats[n].val.messages_with_attachments
             <= email_stats[n].val.message_count
    /\ \A n \in DOMAIN domain_stats :
         domain_stats[n].val.messages_with_attachments
             <= domain_stats[n].val.message_count

\* a sender with some but not all messages carrying an attachment, and a
\* sender all of whose messages carry one
C15_Witness ==
    /\ has_attachment_data
    /\ \E n \in DOMAIN email_stats :
         /\ email_stats[n].val.messages_with_attachments = 1
         /\ email_stats[n].val.message_count = 2
    /\ \E n \in DOMAIN email_stats :
         /\ email_stats[n].val.messages_with_attachments = 1
         /\ email_stats[n].val.message_count = 1

C16_Scenario == messages = <<M_a, M_A, M_nofrom>>

\* C16: senders are keyed case-insensitively and a missing From header is
\* keyed "(unknown)"; each address entry holds the count and the byte sum of
\* the messages with that normalized sender; the three-message scenario gives
\* a@x.com = (2, 300), (unknown) = (1, 50) and two messages on day D, one on D+1.
C16_SenderKeys ==
    /\ \A k \in DOMAIN rows :
         /\ \A j \in DOMAIN rows[k].from_email :
                rows[k].from_email[j] \notin Uppercase
         /\ header_get(messages[k], "From") = None =>
                rows[k].from_email = UNKNOWN
    /\ \A n \in DOMAIN email_stats :
         /\ email_stats[n].val.message_count =
                Cardinality(RowsOfEmail(email_stats[n].key))
         /\ email_stats[n].val.total_size_bytes =
                SizeSum(RowsOfEmail(email_stats[n].key))
    /\ \A k \in DOMAIN rows : HasKey(email_stats, rows[k].from_email)
    /\ C16_Scenario =>
         LET D == iso_date_from_internal_ms(Ms_D0)
         IN /\ Len(email_stats) = 2
            /\ Lookup(email_stats, S_a, SenderStats).message_count = 2
            /\ Lookup(email_stats, S_a, SenderStats).total_size_bytes = 300
            /\ Lookup(email_stats, UNKNOWN, SenderStats).message_count = 1
            /\ Lookup(email_stats, UNKNOWN, SenderStats).total_size_bytes = 50
            /\ by_day = <<[key |-> D, val |-> 2], [key |-> D + 1, val |-> 1]>>

C16_Witness ==
    /\ C16_Scenario
    /\ Len(rows) = 3

\* the text after the last '@' of s
AfterLastAt(s) == SubSeq(s, Max(AtSigns(s)) + 1, Len(s))

\* C17: the domain derived from a normalized sender is the text after its
\* last '@', or "(unknown)" when it has no '@', also for raw-text senders
\* with more than one '@'.
C17_AsStated ==
    \A k \in DOMAIN rows :
        rows[k].domain = IF AtSigns(rows[k].from_email) = {} THEN UNKNOWN
                         ELSE AfterLastAt(rows[k].from_email)

MissingHeaders(msg) ==
    \/ msg.payload = None
    \/ msg.payload[1].headers = None
    \/ msg.payload[1].headers = Some(<<>>)

\* C18: a message without payload, without headers or with an empty header
\* list, or without size never makes the loop raise: it is counted with sender
\* "(unknown)", size 0, no attachment, and the messages after it are
\* aggregated too.
C18_MalformedTolerated ==
    /\ \A k \in DOMAIN rows :
         /\ MissingHeaders(messages[k]) =>
                /\ rows[k].from_email = UNKNOWN
                /\ rows[k].domain = UNKNOWN
         /\ messages[k].payload = None => rows[k].has_attach # Some(TRUE)
         /\ messages[k].sizeEstimate = None => rows[k].size = 0
    /\ apc = "raised" =>
         /\ Len(messages) = Len(rows) + 1
         /\ messages[Len(messages)].internalDate = None
    /\ apc # "raised" => Len(rows) = Len(messages)
    /\ Lookup(email_stats, UNKNOWN, SenderStats).message_count =
           Cardinality(RowsOfEmail(UNKNOWN))

\* a message without payload, then a well-formed one, then an empty payload
\* without size: all three are counted
C18_Witness ==
    /\ messages = <<M_nopayload, M_a, M_emptypayload>>
    /\ has_attachment_data
    /\ Len(rows) = 3
    /\ Lookup(email_stats, UNKNOWN, SenderStats).message_count = 2
    /\ Lookup(email_stats, UNKNOWN, SenderStats).total_size_bytes = 100
    /\ Lookup(email_stats, S_a, SenderStats).message_count = 1

\* view ranks the items of source by key: descending, ties in the order given
\* by Before
Ranked(view, source, key, n, Before(_, _)) ==
    /\ Len(view) = Min(n, Len(source))
    /\ \A a \in DOMAIN view : \E b \in DOMAIN source : view[a] = source[b]
    /\ \A a, b \in DOMAIN view :
         a < b =>
            \/ view[a].val[key] > view[b].val[key]
            \/ /\ view[a].val[key] = view[b].val[key]
               /\ Before(view[a], view[b])
    /\ \A b \in DOMAIN source :
         (\A a \in DOMAIN view : view[a] # source[b]) =>
            \A a \in DOMAIN view : view[a].val[key] >= source[b].val[key]

EmailFirst(x, y) == MinOf(RowsOfEmail(x.key)) < MinOf(RowsOfEmail(y.key))
DomainFirst(x, y) == MinOf(RowsOfDomain(x.key)) < MinOf(RowsOfDomain(y.key))
\* in the CSV files the domain rows are inserted before the email rows
RowFirst(x, y) ==
    \/ x.level = "domain" /\ y.level = "email"
    \/ x.level = "domain" /\ y.level = "domain" /\ DomainFirst(x, y)
    \/ x.level = "email" /\ y.level = "email" /\ EmailFirst(x, y)

\* C19: every ranking is descending by its metric, and senders with equal
\* metric stand in insertion order: first-seen order within a level, and in
\* the CSV files, which rank both levels together, domain rows before email
\* rows.
C19_StableRanking ==
    apc = "reported" =>
        /\ Ranked(views.sorted_domains, domain_stats, "message_count",
                  TOP_N, DomainFirst)
        /\ Ranked(views.sorted_emails, email_stats, "message_count",
                  TOP_N, EmailFirst)
        /\ Ranked(views.sorted_domains_size, domain_stats, "total_size_bytes",
                  TOP_N, DomainFirst)
        /\ Ranked(views.sorted_by_count, all_rows(domain_stats, email_stats),
                  "message_count", Len(rows) * 2, RowFirst)
        /\ Ranked(views.sorted_by_size, all_rows(domain_stats, email_stats),
                  "total_size_bytes", Len(rows) * 2, RowFirst)

KeysOf(view) == [k \in DOMAIN view |-> view[k].key]

\* three senders with one message each; the third has the largest size and
\* moves to the front, the two others tie and keep their order
C19_Witness ==
    /\ apc = "reported"
    /\ messages = <<M_a, M_b, M_c>>
    /\ KeysOf(views.sorted_emails) = <<S_a, lower(SubSeq(S_b, 5, 11)), S_c>>
    /\ KeysOf(views.sorted_by_size) =
           <<<<"x", ".", "c", "o", "m">>, <<"y", ".", "o", "r", "g">>,
             S_c, S_a, lower(SubSeq(S_b, 5, 11))>>

------------------------------------------------------------------------------
(* Database *)

\* the sender_stats rows a call of save_run is to write
RowsOfCall(c) ==
    {[run_id |-> c.run_id,
      aggregation_level |-> c.rows[k].aggregation_level,
      sender |-> c.rows[k].sender] : k \in DOMAIN c.rows}

CommittedCalls == {k \in DOMAIN calls : calls[k].outcome = "committed"}

\* C20: what other connections can see of save_run is all of a run or none of
\* it: every visible runs row belongs to a call that committed and has exactly
\* the sender_stats rows of that call, no sender_stats row is visible without
\* its run, a failed call leaves nothing behind, and every run get_summary
\* reads comes with its complete row set.
C20_AllOrNothing ==
    /\ db_runs = {calls[k].run_id : k \in CommittedCalls}
    /\ db_stats = UNION {RowsOfCall(calls[k]) : k \in CommittedCalls}
    /\ \A k \in CommittedCalls, j \in CommittedCalls :
           calls[k].run_id = calls[j].run_id => k = j
    /\ \A n \in DOMAIN reads :
           reads[n].run_id # 0 =>
               \E k \in CommittedCalls :
                   /\ calls[k].run_id = reads[n].run_id
                   /\ reads[n].rows = RowsOfCall(calls[k])

\* a call failed after the run row and one sender_stats row were inserted, a
\* later call committed two rows, and get_summary read a run while a
\* transaction was open
C20_Witness ==
    /\ \E k \in DOMAIN calls :
           calls[k].outcome = "failed" /\ calls[k].inserted = 1
    /\ \E k \in CommittedCalls : Len(calls[k].rows) = 2
    /\ \E n \in DOMAIN reads :
           reads[n].run_id # 0 /\ reads[n].during = "inserting"


\* the step is a save_run call reaching its commit
SaveCommitted ==
    /\ wpc = "inserting"
    /\ wpc' = "idle"
    /\ calls'[Len(calls')].outcome = "committed"

\* C21: the run history is append-only: no step removes or changes a visible
\* runs row or sender_stats row, a save_run that commits adds exactly one runs
\* row whose run_id was not in the table, and every visible sender_stats row
\* carries the run_id of one runs row and was written by the call that
\* inserted that row.
C21_AppendOnly ==
    [][/\ db_runs \subseteq db_runs'
       /\ db_stats \subseteq db_stats'
       /\ SaveCommitted =>
            /\ run_id \notin db_runs
            /\ db_runs' = db_runs \cup {run_id}
            /\ db_stats' \ db_stats = RowsOfCall(calls[Len(calls)])
       /\ ~SaveCommitted => db_runs' = db_runs /\ db_stats' = db_stats
       /\ \A r \in db_stats' :
            /\ r.run_id \in db_runs'
            /\ Cardinality({k \in DOMAIN calls' :
                    /\ calls'[k].outcome = "committed"
                    /\ r \in RowsOfCall(calls'[k])}) = 1
      ]_vars

\* a call failed, the next one committed a run with two rows, and the run
\* was read
C21_Witness ==
    /\ Len(calls) = 2
    /\ calls[1].outcome = "failed"
    /\ calls[2].outcome = "committed"
    /\ Cardinality(db_stats) = 2
    /\ \E n \in DOMAIN reads : reads[n].run_id # 0


------------------------------------------------------------------------------
(* Throttling and ordering of batch_get_metadata *)

\* positions of the sleeps of the given kind slept for group b
SleepsOf(b, kind) ==
    {k \in DOMAIN sleepLog : sleepLog[k].batch = b /\ sleepLog[k].kind = kind}

GroupSucceeded(b) ==
    \E k \in ExecsOf(b) : execLog[k].outcome = "ok"

\* C23 as stated: after every successful group the fixed delay is slept, once
\* and whatever backoff the group went through, and after every group whose
\* number is a multiple of SLEEP_EVERY_N_BATCHES a pause of
\* SLEEP_LONG_DURATION is slept as well.
C23_AsStated ==
    \A b \in Batches :
        GroupSucceeded(b) =>
            /\ Cardinality(SleepsOf(b, "batch_delay")) = 1
            /\ \A k \in SleepsOf(b, "batch_delay") :
                   sleepLog[k].dur = BATCH_DELAY
            /\ b % SLEEP_EVERY_N_BATCHES = 0 =>
                   \E k \in DOMAIN sleepLog :
                       /\ sleepLog[k].batch = b
                       /\ sleepLog[k].kind \notin {"batch_delay", "backoff"}
                       /\ sleepLog[k].dur = SLEEP_LONG_DURATION

\* C24: groups are processed one after the other: the composite requests are
\* executed in group order, a group is left only by a successful attempt,
\* the next group starts with its first attempt, and the returned list holds
\* the results of the groups in group order.
C24_Sequential ==
    /\ \A k \in DOMAIN execLog :
         k > 1 =>
            \/ /\ execLog[k].batch = execLog[k - 1].batch
               /\ execLog[k].attempt = execLog[k - 1].attempt + 1
               /\ execLog[k - 1].outcome = "rate_limit"
            \/ /\ execLog[k].batch = execLog[k - 1].batch + 1
               /\ execLog[k].attempt = 0
               /\ execLog[k - 1].outcome = "ok"
    /\ execLog # <<>> => execLog[1].batch = 1 /\ execLog[1].attempt = 0
    /\ \A k \in DOMAIN execLog : k < Len(execLog) => ~IsHardFailure(execLog[k])
    /\ \A a, b \in DOMAIN results :
         a < b => (results[a] - 1) \div SAFE_BATCH_SIZE
                      <= (results[b] - 1) \div SAFE_BATCH_SIZE

\* three groups fetched, the second one after a rate-limit retry
C24_Witness ==
    /\ pc = "returned"
    /\ Len(msg_ids) = 25
    /\ \E k \in DOMAIN execLog :
         execLog[k].batch = 2 /\ execLog[k].outcome = "rate_limit"
    /\ Len(results) = 25

\* C27: with MAX_RETRIES = 0 no composite request is built or executed, nothing
\* is counted or slept, and the call returns the empty list without raising.
C27_ZeroRetries ==
    MAX_RETRIES = 0 =>
        /\ execLog = <<>>
        /\ sleepLog = <<>>
        /\ REQUEST_TOTAL = 0
        /\ \A e \in Endpoints : REQUESTS_BY_ENDPOINT[e] = 0
        /\ results = <<>>
        /\ errors = <<>>
        /\ pc # "raised"
        /\ raised = NoError

\* the call returned after walking over three groups without a request
C27_Witness ==
    /\ MAX_RETRIES = 0
    /\ Len(msg_ids) = 25
    /\ pc = "returned"
    /\ i = 3


------------------------------------------------------------------------------
(* Attachments, normalization, rollups *)

\* every part of a part list, at any depth
RECURSIVE AllParts(_)
AllParts(parts) ==
    IF parts = None THEN {}
    ELSE UNION {{parts[1][k]} \cup AllParts(parts[1][k].parts) :
                k \in DOMAIN parts[1]}

\* the part carries a filename or an attachment reference
Carries(part) ==
    \/ part.filename # None /\ part.filename[1] # <<>>
    \/ /\ part.body # None
       /\ part.body[1].attachmentId # None
       /\ part.body[1].attachmentId[1] # <<>>

CarriesAttachment(msg) ==
    /\ msg.payload # None
    /\ \E part \in AllParts(msg.payload[1].parts) : Carries(part)

WithAttachment(K) == {k \in K : CarriesAttachment(messages[k])}

\* C25: with full-detail data a message counts as one message with
\* attachment, on its address entry and on its domain entry, exactly when
\* some part of its part tree, at any depth, carries a filename or an
\* attachment reference; without full-detail data no counter leaves 0.
C25_AttachmentDetection ==
    /\ \A k \in DOMAIN rows :
         rows[k].has_attach =
             IF has_attachment_data THEN Some(CarriesAttachment(messages[k]))
             ELSE None
    /\ \A n \in DOMAIN email_stats :
         email_stats[n].val.messages_with_attachments =
             IF has_attachment_data
             THEN Cardinality(WithAttachment(RowsOfEmail(email_stats[n].key)))
             ELSE 0
    /\ \A n \in DOMAIN domain_stats :
         domain_stats[n].val.messages_with_attachments =
             IF has_attachment_data
             THEN Cardinality(WithAttachment(RowsOfDomain(domain_stats[n].key)))
             ELSE 0

\* an attachment reference two levels down is found, a part list without
\* attachment is not counted
C25_Witness ==
    /\ has_attachment_data
    /\ messages = <<M_c, M_name, M_b>>
    /\ Lookup(email_stats, S_c, SenderStats).messages_with_attachments = 1
    /\ Lookup(domain_stats, extract_domain(S_c), SenderStats)
           .messages_with_attachments = 1
    /\ Lookup(email_stats, <<"b", "o">>, SenderStats).messages_with_attachments = 0

\* the same messages without full-detail data
C25_WitnessNoData ==
    /\ ~has_attachment_data
    /\ messages = <<M_c, M_name, M_b>>
    /\ Len(rows) = 3

\* C26 as stated: normalizing a normalized sender changes nothing, for every
\* header value, whitespace-only ones included, and a missing or empty header
\* normalizes to "(unknown)".
C26_AsStated ==
    \A k \in DOMAIN rows :
        /\ extract_email(Some(rows[k].from_email)) = rows[k].from_email
        /\ header_get(messages[k], "From") \in {None, Some(<<>>)} =>
               rows[k].from_email = UNKNOWN

RECURSIVE CountSum(_)
CountSum(d) == IF d = <<>> THEN 0 ELSE Head(d).val + CountSum(Tail(d))

\* positions in email_stats of the addresses whose derived domain is d
AddressesOf(d) ==
    {n \in DOMAIN email_stats : extract_domain(email_stats[n].key) = d}

RECURSIVE EmailSum(_, _)
EmailSum(N, field) ==
    IF N = {} THEN 0
    ELSE LET n == CHOOSE x \in N : TRUE
         IN email_stats[n].val[field] + EmailSum(N \ {n}, field)

\* C30: every domain entry is the sum of its address entries: its message
\* count equals the sum of its emails mapping and the sum of the counts of
\* the addresses with that derived domain, and its bytes equal the sum of
\* their bytes.
C30_DomainRollup ==
    /\ \A n \in DOMAIN domain_stats :
         LET d == domain_stats[n].key
             v == domain_stats[n].val
         IN /\ v.message_count = CountSum(v.emails)
            /\ v.message_count = EmailSum(AddressesOf(d), "message_count")
            /\ v.total_size_bytes = EmailSum(AddressesOf(d), "total_size_bytes")
            /\ {v.emails[j].key : j \in DOMAIN v.emails} =
                   {email_stats[a].key : a \in AddressesOf(d)}
    /\ \A a \in DOMAIN email_stats :
         HasKey(domain_stats, extract_domain(email_stats[a].key))

\* one domain with two addresses, one of them seen twice
C30_Witness ==
    /\ messages = <<M_a, M_b, M_A>>
    /\ Len(domain_stats) = 1
    /\ domain_stats[1].val.message_count = 3
    /\ domain_stats[1].val.total_size_bytes = 400
    /\ Len(domain_stats[1].val.emails) = 2


------------------------------------------------------------------------------
(* The whole run *)

\* C22: when the sampler returns no identifiers, main prints "No messages
\* found for time window." after the banner and returns normally:
\* batch_get_metadata is not called, save_run is not called, nothing is
\* aggregated, reported or exported.
C22_EmptyWindow ==
    /\ (lpc = "returned" /\ sampler_result = <<>>) =>
          /\ mpc \in {"sampling", "returned"}
          /\ mpc = "sampling" => ENABLED MainNoIds
          /\ pc = "idle" /\ msg_ids = <<>> /\ execLog = <<>>
          /\ REQUESTS_BY_ENDPOINT["batch.execute"] = 0
          /\ REQUESTS_BY_ENDPOINT["users.messages.get"] = 0
          /\ wpc = "idle" /\ calls = <<>> /\ db_runs = {} /\ db_stats = {}
          /\ apc = "idle" /\ views = NoViews
    /\ mpc = "returned" =>
          /\ lpc = "returned" /\ sampler_result = <<>>
          /\ out = <<HEADER, NO_MESSAGES>>

\* two empty pages were listed and main returned
C22_Witness ==
    /\ mpc = "returned"
    /\ ~random_sample
    /\ Len(listLog) = 2
    /\ out[Len(out)] = NO_MESSAGES

C22_WitnessRandom ==
    /\ mpc = "returned"
    /\ random_sample
    /\ max_ids > 0
    /\ out[Len(out)] = NO_MESSAGES

\* C28: when the sampler or the fetcher raises (list failure, a fetch failure
\* that is not throttling, or throttling on the last attempt), main raises the
\* same error and save_run is never called: no runs row and no sender_stats
\* row, committed or pending, and nothing aggregated.
C28_FailedRunLeavesNoTrace ==
    (lpc = "raised" \/ pc = "raised") =>
        /\ mpc \in {"sampling", "fetching", "raised"}
        /\ (mpc = "sampling") => ENABLED MainSamplerRaised
        /\ (mpc = "fetching") => ENABLED MainFetcherRaised
        /\ (pc = "raised") => raised # NoError
        /\ calls = <<>> /\ wpc = "idle"
        /\ db_runs = {} /\ db_stats = {} /\ tx_runs = {} /\ tx_stats = {}
        /\ apc = "idle" /\ messages = <<>>

\* throttling answered the last attempt of a group and the error left main
C28_Witness ==
    /\ mpc = "raised"
    /\ pc = "raised"
    /\ MAX_RETRIES = 1
    /\ raised = [type |-> "HttpError", status |-> 429]
    /\ calls = <<>>

C28_WitnessList ==
    /\ mpc = "raised"
    /\ lpc = "raised"
    /\ Len(listLog) = 2

C28_WitnessHard ==
    /\ mpc = "raised"
    /\ pc = "raised"
    /\ raised.status = 500

RECURSIVE TallySum(_)
TallySum(E) ==
    IF E = {} THEN 0
    ELSE LET e == CHOOSE x \in E : TRUE
         IN REQUESTS_BY_ENDPOINT[e] + TallySum(E \ {e})

\* C29: REQUEST_TOTAL is the sum of the per-endpoint tallies, and each
\* execute_request added exactly 1 to its endpoint whether the request
\* returned or raised: one per list request made, one for the profile once
\* it was requested, one for the label list once the banner is printed.
C29_TalliesAgree ==
    /\ REQUEST_TOTAL = TallySum(Endpoints)
    /\ REQUESTS_BY_ENDPOINT["users.messages.list"] = Len(listLog)
    /\ REQUESTS_BY_ENDPOINT["users.getProfile"] = (IF mpc = "start" THEN 0 ELSE 1)
    /\ REQUESTS_BY_ENDPOINT["users.labels.list"] = (IF out = <<>> THEN 0 ELSE 1)
    /\ REQUESTS_BY_ENDPOINT["users.labels.get"] <= MaxLabels

\* the second list request raised and is counted like the first
C29_Witness ==
    /\ lpc = "raised"
    /\ Len(listLog) = 2
    /\ listLog[1].status = 200
    /\ listLog[2].status # 200
    /\ REQUESTS_BY_ENDPOINT["users.messages.list"] = 2
    /\ REQUEST_TOTAL >= 4

C29_WitnessProfile ==
    /\ mpc = "raised"
    /\ out = <<>>
    /\ REQUEST_TOTAL = 1

====
